---- MODULE Spec2Model ----
(***************************************************************************)
(* Source ranking (app/internal/ranking/download_ranking.py), quality      *)
(* extraction (app/internal/ranking/quality_extract.py) and the indexer    *)
(* enrichment pass (app/internal/prowlarr/source_metadata.py), the         *)
(* MyAnonamouse plugin (app/internal/indexers/mam.py), query_sources       *)
(* (app/internal/query.py) and SimpleCache (app/util/cache.py) of          *)
(* AudioBookRequest.                                                       *)
(*                                                                         *)
(* Eight specifications share the variables:                               *)
(*   SpecRank     one rank_sources call over a list of sources             *)
(*   SpecCompare  one CompareSource.compare call in both directions        *)
(*   SpecEnrich   one edit_source_metadata call over plugins and sources   *)
(*   SpecExtract  one extract_qualities call, torrent inspection on or off *)
(*   SpecInspect  one rank_sources call, torrent inspection on or off      *)
(*   SpecMam      one MamIndexer.enrichResults call over a list of sources *)
(*   SpecQuery    concurrent query_sources calls over the BookRequest rows *)
(*   SpecCache    calls on the SimpleCache instances of the application    *)
(***************************************************************************)
EXTENDS Integers, Sequences, FiniteSets, TLC

VARIABLES
    book,            \* BookRequest handed to rank_sources / CompareSource
    config,          \* the ranking configuration read through quality_config
    inspection,      \* quality_extract.ENABLE_TORRENT_INSPECTION during the call
    sources,         \* rank_sources: the input list
    pc_rank,         \* rank_sources: "extract" | "sort" | "return" | "done" | "raised" | "idle"
    qualities,       \* rank_sources: result slot of each get_qualities coroutine
    completed,       \* rank_sources: order in which the coroutines finished
    rank_list,       \* rank_sources: the local list rank_sources (RankSource pairs)
    ranked,          \* rank_sources: the returned list of sources
    cmp_a,           \* compare: first RankSource
    cmp_b,           \* compare: second RankSource
    cmp_pc,          \* compare: "call" | "done" | "idle"
    cmp_ab,          \* compare: compare(cmp_a, cmp_b)
    cmp_ba,          \* compare: compare(cmp_b, cmp_a)
    en_pc,           \* enrichment: position in edit_source_metadata
    en_i,            \* enrichment: index of the plugin being configured
    en_stored,       \* enrichment: the stored configuration read for each plugin
    en_valued,       \* enrichment: the list valued (plugins that got a configuration)
    en_setup,        \* enrichment: state of each plugin's setup() task
    en_src,          \* enrichment: index of the source being matched
    en_k,            \* enrichment: position in valued of the plugin being asked
    en_asked,        \* enrichment: answer of is_matching_source per (source, plugin)
    en_coros,        \* enrichment: the list coros of (plugin, source) edit coroutines
    en_task,         \* enrichment: state of each edit coroutine
    en_marks,        \* enrichment: per source, the plugins whose edit ran on it
    en_raised,       \* enrichment: where the exception that left the call came from
    ex_pc,           \* extract_qualities: "call" | "done" | "idle"
    ex_source,       \* extract_qualities: the source argument
    ex_seen,         \* extract_qualities: the responses its fetches received
    ex_result,       \* extract_qualities: [raised, qualities]
    mam_pc,          \* enrichResults: "call" | "done" | "raised" | "idle"
    mam_config,      \* enrichResults: the stored values mam_active, mam_session_id
    mam_query,       \* enrichResults: the query argument
    mam_results,     \* enrichResults: the list results
    mam_cached,      \* enrichResults: what mam_source_cache holds for the query
    querying,        \* query.querying, the set of ASINs being queried
    rows,            \* the BookRequest rows of the database
    calls,           \* query_sources: the state of each call
    downloads,       \* query_sources: the start_download requests made
    class_cache,     \* SimpleCache._cache, the dict of the class
    own_cache,       \* SimpleCache: the _cache attribute of each instance
    now,             \* SimpleCache: int(time.time())
    ca_last          \* SimpleCache: the last call and what it returned

rank_vars == <<sources, pc_rank, qualities, completed, rank_list, ranked>>
cmp_vars == <<cmp_a, cmp_b, cmp_pc, cmp_ab, cmp_ba>>
en_vars == <<en_pc, en_i, en_stored, en_valued, en_setup, en_src, en_k, en_asked,
             en_coros, en_task, en_marks, en_raised>>
ex_vars == <<ex_pc, ex_source, ex_seen, ex_result>>
mam_vars == <<mam_pc, mam_config, mam_query, mam_results, mam_cached>>
q_vars == <<querying, rows, calls, downloads>>
ca_vars == <<class_cache, own_cache, now, ca_last>>
\* the variables of every specification
vars == <<book, config, inspection, rank_vars, cmp_vars, en_vars, ex_vars,
          mam_vars, q_vars, ca_vars>>

----------------------------------------------------------------------------
(* Bounds of the model *)

\* longest input list of rank_sources
MaxSources == 3
\* largest seeder count of a torrent source
MaxSeeders == 3
\* attributes in which the sources of one input list differ from RefSource
MaxListDiff == 2
\* attributes in which the two compared sources differ from RefSource
MaxPairDiff == 3
\* most file entries of a torrent descriptor
MaxFiles == 2
\* longest input list of rank_sources when torrents are inspected
MaxInspectSources == 2

----------------------------------------------------------------------------
(* Values *)

None == "None"

\* QualityProfile._default_min_seeders
DefaultMinSeeders == 2
\* QualityProfile._default_name_exists_ratio
DefaultNameExistsRatio == 75
\* QualityProfile._default_title_exists_ratio
DefaultTitleExistsRatio == 90
\* QualityProfile._default_quality_range
DefaultQualityRange == [from_kbits |-> 20, to_kbits |-> 400]

FileFormat == {"flac", "m4b", "mp3", "unknown-audio", "unknown"}

QualityFormatKey ==
    {"quality_flac", "quality_m4b", "quality_mp3",
     "quality_unknown_audio", "quality_unknown"}

\* the configuration as the getters of QualityProfile return it when no key is set
DefaultConfig ==
    [prowlarr_api_key |-> "key",
     ranges |-> [k \in QualityFormatKey |-> DefaultQualityRange],
     min_seeders |-> DefaultMinSeeders,
     name_exists_ratio |-> DefaultNameExistsRatio,
     title_exists_ratio |-> DefaultTitleExistsRatio,
     indexer_flags |-> <<>>,
     format_order |-> <<"flac", "m4b", "mp3", "unknown-audio", "unknown">>,
     indexer_order |-> <<>>]

\* a configuration an admin has tuned: its own mp3 range, a flag score, an
\* indexer order and a reordered format list
TunedConfig ==
    [DefaultConfig EXCEPT
        !.ranges = [k \in QualityFormatKey |->
                      IF k = "quality_mp3"
                      THEN [from_kbits |-> 100, to_kbits |-> 400]
                      ELSE DefaultQualityRange],
        !.indexer_flags = <<[flag |-> "Freeleech", score |-> 1]>>,
        !.format_order = <<"m4b", "mp3", "flac", "unknown-audio", "unknown">>,
        !.indexer_order = <<2, 1>>]

\* the tuned configuration with a format list that names only three formats
ShortConfig ==
    [TunedConfig EXCEPT !.format_order = <<"m4b", "mp3", "flac">>]

Configs == {DefaultConfig, TunedConfig, ShortConfig}

PlainBook ==
    [title |-> "dune", subtitle |-> None, authors |-> <<"herbert">>,
     narrators |-> <<"vance">>, runtime_length_min |-> 1]

SubtitleBook == [PlainBook EXCEPT !.subtitle = "messiah"]

\* a book whose runtime is not known
ZeroRuntimeBook == [PlainBook EXCEPT !.runtime_length_min = 0]

LongBook == [PlainBook EXCEPT !.runtime_length_min = 2]

Books == {PlainBook, SubtitleBook}

\* words a source title is made of; a title is the set of its lower-cased words
TitleWords ==
    {"dune", "herbert", "vance", "messiah", "mp3", "flac", "m4b", "audiobook"}

\* publish dates, in milliseconds
PublishDates == {0, 1000, 1500}

\* sizes in bytes; with a one minute book they give 20, 100 and 400 kbit/s
Sizes == {150000, 750000, 3000000}

IndexerIds == {1, 2}

Seeders == 1 .. MaxSeeders

\* the source the enumerated inputs are variations of
RefSource ==
    [guid |-> 0, protocol |-> "torrent", seeders |-> 2, publish_date |-> 1000,
     size |-> 750000, indexer_flags |-> {}, indexer_id |-> 1,
     title |-> {"dune", "herbert", "vance"},
     download_url |-> "http://prowlarr/1/download", magnet_url |-> None]

\* every source that differs from s in exactly one attribute (guid apart)
Edits(s) ==
    (IF s.protocol = "torrent"
     THEN {[s EXCEPT !.protocol = "usenet", !.seeders = 0]}
          \cup {[s EXCEPT !.seeders = n] : n \in Seeders \ {s.seeders}}
     ELSE {[s EXCEPT !.protocol = "torrent", !.seeders = RefSource.seeders]})
    \cup {[s EXCEPT !.publish_date = d] : d \in PublishDates \ {s.publish_date}}
    \cup {[s EXCEPT !.size = z] : z \in Sizes \ {s.size}}
    \cup {[s EXCEPT !.indexer_flags =
             IF "freeleech" \in @ THEN @ \ {"freeleech"} ELSE @ \cup {"freeleech"}]}
    \cup {[s EXCEPT !.indexer_id = i] : i \in IndexerIds \ {s.indexer_id}}
    \cup {[s EXCEPT !.title = IF w \in @ THEN @ \ {w} ELSE @ \cup {w}] :
            w \in TitleWords}

\* the lists got from a list by one edit of one of its elements
ListEdits(l) ==
    UNION {{[l EXCEPT ![i] = e] : e \in Edits(l[i])} : i \in DOMAIN l}

RECURSIVE ListsWithin(_, _)
\* the lists of n sources that differ from n copies of RefSource in at most d
\* attributes; the guid of a source is its position in the list
ListsWithin(n, d) ==
    IF d = 0
    THEN {[i \in 1 .. n |-> [RefSource EXCEPT !.guid = i]]}
    ELSE LET prev == ListsWithin(n, d - 1)
         IN  prev \cup UNION {ListEdits(l) : l \in prev}

InputLists == UNION {ListsWithin(n, MaxListDiff) : n \in 0 .. MaxSources}

InputPairs == ListsWithin(2, MaxPairDiff)

----------------------------------------------------------------------------
(* quality_extract.py *)

\* quality_extract.ENABLE_TORRENT_INSPECTION, as the module sets it
ENABLE_TORRENT_INSPECTION == FALSE

\* for _ in range(3): the fetches one extract_qualities call may make
FetchAttempts == 3

\* the entries of audio_file_formats that file names of the model end in
audio_file_formats == {".aac", ".flac", ".m4a", ".m4b", ".mp3", ".ogg", ".wav"}

\* str.lower on the strings the model uses
lower(w) ==
    IF w = "Freeleech" THEN "freeleech"
    ELSE IF w = ".MP3" THEN ".mp3"
    ELSE IF w = "MP3" THEN "mp3"
    ELSE IF w = "FLAC" THEN "flac"
    ELSE IF w = "M4B" THEN "m4b"
    ELSE IF w = "Audiobook" THEN "audiobook"
    ELSE w

\* source.title.lower(), a title being the set of its words
title_lower(title) == {lower(w) : w \in title}

\* the bitrate in kibibits: 8 * size / book_seconds / 1024
kbits_of_kibi(size, book_seconds) ==
    [num |-> 8 * size, den |-> book_seconds * 1024]

\* 8 * size / book_seconds / 1000 as the exact fraction num / den
kbits_of(size, book_seconds) == [num |-> 8 * size, den |-> book_seconds * 1000]

\* os.path.splitext(path)[1] on the file names the model uses
splitext(path) ==
    CASE path = "01.flac" -> ".flac"
      [] path = "02.MP3" -> ".MP3"
      [] path = "03.aac" -> ".aac"
      [] path = "cover.jpg" -> ".jpg"
      [] OTHER -> ""

\* a file entry of parsed["info"]["files"]: the keys it has, its length and
\* the last component of its path
FileEntry(keys, length, path) == [keys |-> keys, length |-> length, path |-> path]

FileEntries ==
    {FileEntry({"length", "path"}, 450000, "01.flac"),
     FileEntry({"length", "path"}, 150000, "02.MP3"),
     FileEntry({"length", "path"}, 75000, "03.aac"),
     FileEntry({"length", "path"}, 1000, "cover.jpg"),
     FileEntry({"path"}, 0, "01.flac"),
     FileEntry({"length"}, 450000, "")}

FileLists == UNION {[1 .. n -> FileEntries] : n \in 0 .. MaxFiles}

\* what a fetch leaves in data: None, b"", bytes that do not decode, or a
\* bencoded dictionary given by its keys, the keys of its "info" and its files
NoData == [kind |-> "None", keys |-> {}, info_keys |-> {}, files |-> <<>>]

EmptyBody == [NoData EXCEPT !.kind = "empty"]

UndecodableBody == [NoData EXCEPT !.kind = "undecodable"]

Torrent(keys, info_keys, files) ==
    [kind |-> "bencoded", keys |-> keys, info_keys |-> info_keys, files |-> files]

Bodies ==
    {EmptyBody, UndecodableBody, Torrent({"announce"}, {}, <<>>),
     Torrent({"announce", "info"}, {"name", "length"}, <<>>)}
    \cup {Torrent({"announce", "info"}, {"name", "files"}, l) : l \in FileLists}

\* the URI a redirect to a magnet link carries in e.args[0]
MagnetUri == "magnet:?xt=urn:btih:1"

\* what client_session.get gives on one attempt: a response with a status and
\* a body, or an exception
Response(status, body) == [kind |-> "response", status |-> status, body |-> body]

NonHttpUrlRedirectClientError ==
    [kind |-> "NonHttpUrlRedirectClientError", status |-> 0, body |-> NoData]

ClientConnectionError ==
    [kind |-> "ClientConnectionError", status |-> 0, body |-> NoData]

Statuses == {200, 500, 503}

\* what the network answers to the successive fetches of one call
Nets ==
    UNION {[1 .. FetchAttempts ->
              {Response(st, body) : st \in Statuses}
              \cup {NonHttpUrlRedirectClientError, ClientConnectionError}] :
           body \in Bodies}

\* a network that serves body on the first fetch
Serving(body) == [k \in 1 .. FetchAttempts |-> Response(200, body)]

RECURSIVE scan_files(_, _, _)
\* for f in parsed["info"]["files"]: ..., from entry i on; acc is
\* [raised, order, actual_sizes], order being the insertion order of the keys
\* of actual_sizes and raised the KeyError of f["length"] or f["path"]
scan_files(files, i, acc) ==
    IF i > Len(files) THEN acc
    ELSE IF "length" \notin files[i].keys \/ "path" \notin files[i].keys
    THEN [acc EXCEPT !.raised = TRUE]
    ELSE LET size == files[i].length
             ext == lower(splitext(files[i].path))
             k == IF ext = ".flac" THEN "flac"
                  ELSE IF ext = ".m4b" THEN "m4b"
                  ELSE IF ext = ".mp3" THEN "mp3"
                  ELSE IF ext \in audio_file_formats THEN "unknown"
                  ELSE None
         IN  IF k = None
             THEN scan_files(files, i + 1, acc)
             ELSE scan_files(files, i + 1,
                    [raised |-> FALSE,
                     order |-> IF \E j \in DOMAIN acc.order : acc.order[j] = k
                               THEN acc.order ELSE Append(acc.order, k),
                     actual_sizes |-> [acc.actual_sizes EXCEPT ![k] = @ + size]])

\* get_torrent_info: [raised, qualities]
get_torrent_info(data, book_seconds) ==
    IF data.kind # "bencoded"
    THEN [raised |-> FALSE, qualities |-> <<>>]
    ELSE IF "info" \notin data.keys \/ "files" \notin data.info_keys
    THEN [raised |-> FALSE, qualities |-> <<>>]
    ELSE LET scan == scan_files(data.files, 1,
                        [raised |-> FALSE, order |-> <<>>,
                         actual_sizes |-> [k \in FileFormat |-> 0]])
         IN  IF scan.raised
             THEN [raised |-> TRUE, qualities |-> <<>>]
             ELSE [raised |-> FALSE,
                   qualities |->
                       [i \in 1 .. Len(scan.order) |->
                           [kbits |-> kbits_of(scan.actual_sizes[scan.order[i]],
                                               book_seconds),
                            file_format |-> scan.order[i]]]]

RECURSIVE fetch(_, _)
\* the loop "for _ in range(3)" from the given attempt on:
\* [outcome, data, attempts]
fetch(net, attempt) ==
    IF attempt > FetchAttempts
    THEN [outcome |-> "exhausted", data |-> NoData, attempts |-> FetchAttempts]
    ELSE IF net[attempt].kind = "NonHttpUrlRedirectClientError"
    THEN [outcome |-> "redirected", data |-> NoData, attempts |-> attempt]
    ELSE IF net[attempt].kind # "response"
    THEN [outcome |-> "raised", data |-> NoData, attempts |-> attempt]
    ELSE IF net[attempt].status = 500
    THEN fetch(net, attempt + 1)
    ELSE [outcome |-> "read", data |-> net[attempt].body, attempts |-> attempt]

\* the heuristic with the tests for flac and mp3 in the other order
heuristic_qualities_flac_first(source, book_seconds) ==
    LET file_format ==
            IF "flac" \in title_lower(source.title) THEN "flac"
            ELSE IF "mp3" \in title_lower(source.title) THEN "mp3"
            ELSE IF "m4b" \in title_lower(source.title) THEN "m4b"
            ELSE IF "audiobook" \in title_lower(source.title) THEN "unknown-audio"
            ELSE "unknown"
    IN  <<[kbits |-> kbits_of(source.size, book_seconds),
           file_format |-> file_format]>>

\* the title and size heuristic at the end of extract_qualities
heuristic_qualities(source, book_seconds) ==
    LET file_format ==
            IF "mp3" \in title_lower(source.title) THEN "mp3"
            ELSE IF "flac" \in title_lower(source.title) THEN "flac"
            ELSE IF "m4b" \in title_lower(source.title) THEN "m4b"
            ELSE IF "audiobook" \in title_lower(source.title) THEN "unknown-audio"
            ELSE "unknown"
    IN  <<[kbits |-> kbits_of(source.size, book_seconds),
           file_format |-> file_format]>>

\* a runtime check that lets every book through
runtime_unknown_never(book_seconds) == FALSE

\* if book_seconds == 0: return []
runtime_unknown(book_seconds) == book_seconds = 0

\* a redirect handler that leaves the source as it was
magnet_redirect_ignored(source) == source

\* source.magnet_url = e.args[0]; source.download_url = None
magnet_redirect(source) ==
    [source EXCEPT !.magnet_url = MagnetUri, !.download_url = None]

\* the test for inspection without the switch: if source.download_url
inspects_whatever_switch(source, enable) == source.download_url # None

\* if source.download_url and ENABLE_TORRENT_INSPECTION
inspects(source, enable) == source.download_url # None /\ enable

\* extract_qualities with ENABLE_TORRENT_INSPECTION = enable and a network
\* that answers as net: [raised, qualities, source, seen], source being the
\* source object after the call and seen the answers its fetches got; raised
\* when the Prowlarr API key is not set, a fetch fails or parsing raises
run_extract_qualities(source, bk, enable, net) ==
    LET api_key == config.prowlarr_api_key
        book_seconds == bk.runtime_length_min * 60
        fetched == fetch(net, 1)
        seen == SubSeq(net, 1, fetched.attempts)
        redirected == magnet_redirect(source)
        parsed == get_torrent_info(fetched.data, book_seconds)
    IN  IF api_key = None \/ api_key = ""
        THEN [raised |-> TRUE, qualities |-> <<>>, source |-> source,
              seen |-> <<>>]
        ELSE IF runtime_unknown(book_seconds)
        THEN [raised |-> FALSE, qualities |-> <<>>, source |-> source,
              seen |-> <<>>]
        ELSE IF inspects(source, enable)
        THEN CASE fetched.outcome = "exhausted" ->
                    [raised |-> FALSE, qualities |-> <<>>, source |-> source,
                     seen |-> seen]
               [] fetched.outcome = "raised" ->
                    [raised |-> TRUE, qualities |-> <<>>, source |-> source,
                     seen |-> seen]
               [] fetched.outcome = "redirected" ->
                    [raised |-> FALSE,
                     qualities |-> heuristic_qualities(redirected, book_seconds),
                     source |-> redirected, seen |-> seen]
               [] fetched.outcome = "read" ->
                    IF fetched.data.kind \notin {"None", "empty"}
                    THEN [raised |-> parsed.raised, qualities |-> parsed.qualities,
                          source |-> source, seen |-> seen]
                    ELSE [raised |-> FALSE,
                          qualities |-> heuristic_qualities(source, book_seconds),
                          source |-> source, seen |-> seen]
        ELSE [raised |-> FALSE,
              qualities |-> heuristic_qualities(source, book_seconds),
              source |-> source, seen |-> <<>>]

\* a network that is never asked
Offline == [k \in 1 .. FetchAttempts |-> ClientConnectionError]

\* extract_qualities with ENABLE_TORRENT_INSPECTION as the source sets it:
\* [raised, qualities], raised when the Prowlarr API key is not set
extract_qualities(source, bk) ==
    LET run == run_extract_qualities(source, bk, ENABLE_TORRENT_INSPECTION, Offline)
    IN  [raised |-> run.raised, qualities |-> run.qualities]

----------------------------------------------------------------------------
(* quality.py: QualityProfile *)

\* list.index: 0-based position of the first occurrence, -1 for ValueError
RECURSIVE index_from(_, _, _)
index_from(seq, x, i) ==
    IF i > Len(seq) THEN -1
    ELSE IF seq[i] = x THEN i - 1
    ELSE index_from(seq, x, i + 1)

get_range(key) == config.ranges[key]

get_min_seeders == config.min_seeders

get_indexer_flags == config.indexer_flags

get_title_exists_ratio == config.title_exists_ratio

get_name_exists_ratio == config.name_exists_ratio

calculate_quality_rank(file_format) ==
    LET format_order == config.format_order
        i == index_from(format_order, file_format, 1)
    IN  IF i = -1 THEN Len(format_order) ELSE i

calculate_indexer_rank(indexer_id) ==
    LET indexer_order == config.indexer_order
        i == index_from(indexer_order, indexer_id, 1)
    IN  IF i = -1 THEN Len(indexer_order) ELSE i

----------------------------------------------------------------------------
(* download_ranking.py: CompareSource *)

\* rapidfuzz fuzz.partial_ratio(word, title, processor=default_process) on a
\* title given as its set of words: a word of the title matches fully
partial_ratio(word, title) == IF lower(word) \in title_lower(title) THEN 100 ELSE 0

\* rapidfuzz fuzz.token_set_ratio(word, title, processor=default_process)
token_set_ratio(word, title) == IF lower(word) \in title_lower(title) THEN 100 ELSE 0

vaguely_exist_in_title(words, title, name_exists_ratio) ==
    Cardinality({i \in DOMAIN words :
                    token_set_ratio(words[i], title) > name_exists_ratio})

exists_in_title(word, title, title_exists_ratio) ==
    partial_ratio(word, title) > title_exists_ratio

\* int(True) = 1, int(False) = 0
int_of_bool(v) == IF v THEN 1 ELSE 0

\* int(timedelta.total_seconds()) of a difference in milliseconds: truncation
\* towards zero
int_total_seconds(ms) == IF ms >= 0 THEN ms \div 1000 ELSE -((-ms) \div 1000)

\* self.compare_order
compare_order ==
    <<"_compare_valid", "_compare_title", "_compare_authors",
      "_compare_narrators", "_compare_format", "_compare_flags",
      "_compare_indexer", "_compare_subtitle", "_compare_seeders",
      "_compare_age">>

\* _get_next_compare(index)(a, b, next_compare)
RECURSIVE _get_next_compare(_, _, _, _)

\* _is_valid_quality with both comparisons not strict
_is_valid_quality_closed(a) ==
    LET quality_range ==
            CASE a.quality.file_format = "flac" -> get_range("quality_flac")
              [] a.quality.file_format = "m4b" -> get_range("quality_m4b")
              [] a.quality.file_format = "mp3" -> get_range("quality_mp3")
              [] a.quality.file_format = "unknown-audio" ->
                    get_range("quality_unknown_audio")
              [] a.quality.file_format = "unknown" -> get_range("quality_unknown")
    IN  /\ quality_range.from_kbits * a.quality.kbits.den <= a.quality.kbits.num
        /\ a.quality.kbits.num <= quality_range.to_kbits * a.quality.kbits.den

_is_valid_quality(a) ==
    LET quality_range ==
            CASE a.quality.file_format = "flac" -> get_range("quality_flac")
              [] a.quality.file_format = "m4b" -> get_range("quality_m4b")
              [] a.quality.file_format = "mp3" -> get_range("quality_mp3")
              [] a.quality.file_format = "unknown-audio" ->
                    get_range("quality_unknown_audio")
              [] a.quality.file_format = "unknown" -> get_range("quality_unknown")
    IN  /\ quality_range.from_kbits * a.quality.kbits.den < a.quality.kbits.num
        /\ a.quality.kbits.num < quality_range.to_kbits * a.quality.kbits.den

\* a_valid / b_valid of _compare_valid
source_valid(a) ==
    IF a.source.protocol = "torrent"
    THEN _is_valid_quality(a) /\ a.source.seeders >= get_min_seeders
    ELSE _is_valid_quality(a)

\* _compare_valid with the operands of the subtraction exchanged
_compare_valid_swapped(a, b, next_compare) ==
    LET a_valid == source_valid(a)
        b_valid == source_valid(b)
    IN  IF a_valid = b_valid
        THEN _get_next_compare(next_compare, a, b, next_compare + 1)
        ELSE int_of_bool(a_valid) - int_of_bool(b_valid)

_compare_valid(a, b, next_compare) ==
    LET a_valid == source_valid(a)
        b_valid == source_valid(b)
    IN  IF a_valid = b_valid
        THEN _get_next_compare(next_compare, a, b, next_compare + 1)
        ELSE int_of_bool(b_valid) - int_of_bool(a_valid)

_compare_format(a, b, next_compare) ==
    IF a.quality.file_format = b.quality.file_format
    THEN _get_next_compare(next_compare, a, b, next_compare + 1)
    ELSE LET a_index == calculate_quality_rank(a.quality.file_format)
             b_index == calculate_quality_rank(b.quality.file_format)
         IN  a_index - b_index

\* sum(f.score for f in flags if f.flag.lower() in indexer_flags)
RECURSIVE flag_score(_, _, _)
flag_score(flags, indexer_flags, i) ==
    IF i > Len(flags) THEN 0
    ELSE (IF lower(flags[i].flag) \in indexer_flags THEN flags[i].score ELSE 0)
         + flag_score(flags, indexer_flags, i + 1)

_compare_flags(a, b, next_compare) ==
    LET a_score == flag_score(get_indexer_flags, a.source.indexer_flags, 1)
        b_score == flag_score(get_indexer_flags, b.source.indexer_flags, 1)
    IN  IF a_score = b_score
        THEN _get_next_compare(next_compare, a, b, next_compare + 1)
        ELSE b_score - a_score

_compare_indexer(a, b, next_compare) ==
    LET a_index == calculate_indexer_rank(a.source.indexer_id)
        b_index == calculate_indexer_rank(b.source.indexer_id)
    IN  IF a_index = b_index
        THEN _get_next_compare(next_compare, a, b, next_compare + 1)
        ELSE a_index - b_index

_compare_title(a, b, next_compare) ==
    LET a_title == exists_in_title(book.title, a.source.title,
                                   get_title_exists_ratio)
        b_title == exists_in_title(book.title, b.source.title,
                                   get_title_exists_ratio)
    IN  IF a_title = b_title
        THEN _get_next_compare(next_compare, a, b, next_compare + 1)
        ELSE int_of_bool(b_title) - int_of_bool(a_title)

_compare_subtitle(a, b, next_compare) ==
    IF book.subtitle = None \/ book.subtitle = ""
    THEN _get_next_compare(next_compare, a, b, next_compare + 1)
    ELSE LET a_title == exists_in_title(book.subtitle, a.source.title,
                                        get_title_exists_ratio)
             b_title == exists_in_title(book.subtitle, b.source.title,
                                        get_title_exists_ratio)
         IN  IF a_title = b_title
             THEN _get_next_compare(next_compare, a, b, next_compare + 1)
             ELSE int_of_bool(b_title) - int_of_bool(a_title)

_compare_authors(a, b, next_compare) ==
    LET a_score == vaguely_exist_in_title(book.authors, a.source.title,
                                          get_name_exists_ratio)
        b_score == vaguely_exist_in_title(book.authors, b.source.title,
                                          get_name_exists_ratio)
    IN  IF a_score = b_score
        THEN _get_next_compare(next_compare, a, b, next_compare + 1)
        ELSE b_score - a_score

_compare_narrators(a, b, next_compare) ==
    LET a_score == vaguely_exist_in_title(book.narrators, a.source.title,
                                          get_name_exists_ratio)
        b_score == vaguely_exist_in_title(book.narrators, b.source.title,
                                          get_name_exists_ratio)
    IN  IF a_score = b_score
        THEN _get_next_compare(next_compare, a, b, next_compare + 1)
        ELSE b_score - a_score

_compare_seeders(a, b, next_compare) ==
    IF a.source.protocol = "usenet" \/ b.source.protocol = "usenet"
    THEN _get_next_compare(next_compare, a, b, next_compare + 1)
    ELSE IF a.source.seeders = b.source.seeders
    THEN _get_next_compare(next_compare, a, b, next_compare + 1)
    ELSE b.source.seeders - a.source.seeders

\* _compare_age without the test that the protocols are the same
_compare_age_any_protocol(a, b, next_compare) ==
    IF a.source.protocol = "usenet"
    THEN int_total_seconds(a.source.publish_date - b.source.publish_date)
    ELSE int_total_seconds(b.source.publish_date - a.source.publish_date)

_compare_age(a, b, next_compare) ==
    IF a.source.protocol # b.source.protocol
    THEN _get_next_compare(next_compare, a, b, next_compare + 1)
    ELSE IF a.source.protocol = "usenet"
    THEN int_total_seconds(a.source.publish_date - b.source.publish_date)
    ELSE int_total_seconds(b.source.publish_date - a.source.publish_date)

_get_next_compare(index, a, b, next_compare) ==
    IF index < Len(compare_order)
    THEN LET step == compare_order[index + 1]
         IN  CASE step = "_compare_valid" -> _compare_valid(a, b, next_compare)
               [] step = "_compare_title" -> _compare_title(a, b, next_compare)
               [] step = "_compare_authors" -> _compare_authors(a, b, next_compare)
               [] step = "_compare_narrators" ->
                     _compare_narrators(a, b, next_compare)
               [] step = "_compare_format" -> _compare_format(a, b, next_compare)
               [] step = "_compare_flags" -> _compare_flags(a, b, next_compare)
               [] step = "_compare_indexer" -> _compare_indexer(a, b, next_compare)
               [] step = "_compare_subtitle" ->
                     _compare_subtitle(a, b, next_compare)
               [] step = "_compare_seeders" -> _compare_seeders(a, b, next_compare)
               [] step = "_compare_age" -> _compare_age(a, b, next_compare)
    ELSE 0

compare(a, b) == _get_next_compare(0, a, b, 1)

----------------------------------------------------------------------------
(* list.sort(key=cmp_to_key(compare)), as CPython sorts a list of fewer    *)
(* than 64 elements: the leading run is found (and reversed when strictly  *)
(* descending), the remaining elements are added by binary insertion.      *)
(* Only K(x) < K(y), which is compare(x, y) < 0, is ever evaluated.        *)

\* functools.cmp_to_key: K(x) < K(y)
key_lt(x, y) == compare(x, y) < 0

\* count_run: extend the run that covers seq[1 .. n]
RECURSIVE run_length(_, _, _)
run_length(seq, descending, n) ==
    IF n < Len(seq) /\ (key_lt(seq[n + 1], seq[n]) = descending)
    THEN run_length(seq, descending, n + 1)
    ELSE n

count_run(seq) ==
    IF Len(seq) < 2
    THEN [n |-> Len(seq), descending |-> FALSE]
    ELSE LET descending == key_lt(seq[2], seq[1])
         IN  [n |-> run_length(seq, descending, 2), descending |-> descending]

\* reverse_slice: seq with its first n elements reversed
reverse_slice(seq, n) ==
    [i \in 1 .. Len(seq) |-> IF i <= n THEN seq[n + 1 - i] ELSE seq[i]]

\* binary_sort's search: the 0-based position in seq[l+1 .. r] for pivot
RECURSIVE bisect(_, _, _, _)
bisect(seq, pivot, l, r) ==
    IF l >= r THEN l
    ELSE LET p == l + ((r - l) \div 2)
         IN  IF key_lt(pivot, seq[p + 1])
             THEN bisect(seq, pivot, l, p)
             ELSE bisect(seq, pivot, p + 1, r)

\* binary_sort: seq[1 .. start-1] is sorted; insert seq[start], then the rest
RECURSIVE binary_sort(_, _)
binary_sort(seq, start) ==
    IF start > Len(seq) THEN seq
    ELSE LET pivot == seq[start]
             l == bisect(seq, pivot, 0, start - 1)
             moved == [i \in 1 .. Len(seq) |->
                         IF i <= l THEN seq[i]
                         ELSE IF i = l + 1 THEN pivot
                         ELSE IF i <= start THEN seq[i - 1]
                         ELSE seq[i]]
         IN  binary_sort(moved, start + 1)

list_sort(seq) ==
    LET run == count_run(seq)
        prepared == IF run.descending THEN reverse_slice(seq, run.n) ELSE seq
    IN  binary_sort(prepared, run.n + 1)

----------------------------------------------------------------------------
(* download_ranking.py: rank_sources *)

\* the result slot of a coroutine that has not finished
NotDone == [done |-> FALSE, raised |-> FALSE, qualities |-> <<>>]

\* the result slot of a coroutine that finished with result r
Done(r) == [done |-> TRUE, raised |-> r.raised, qualities |-> r.qualities]

\* get_qualities keeping the first Quality of a source only
get_qualities_first(source, extracted) ==
    [i \in 1 .. (IF Len(extracted) > 0 THEN 1 ELSE 0) |->
        [source |-> source, quality |-> extracted[i]]]

\* get_qualities: the RankSource pairs of one source
get_qualities(source, extracted) ==
    [i \in 1 .. Len(extracted) |-> [source |-> source, quality |-> extracted[i]]]

RECURSIVE flatten(_, _, _)
\* [x for y in results for x in y], results taken in the order given by order
flatten(results, order, i) ==
    IF i > Len(order) THEN <<>>
    ELSE results[order[i]] \o flatten(results, order, i + 1)

\* the list asyncio.gather would give if it returned results as they finish
gather_as_completed(slots, finished) ==
    flatten([i \in DOMAIN slots |-> get_qualities(sources[i], slots[i].qualities)],
            finished, 1)

\* asyncio.gather(*coros): the results in the order of coros, whatever the
\* order the coroutines finished in
gather(slots, finished) ==
    flatten([i \in DOMAIN slots |-> get_qualities(sources[i], slots[i].qualities)],
            [i \in 1 .. Len(slots) |-> i], 1)

RankInit ==
    /\ sources \in InputLists
    /\ pc_rank = "extract"
    /\ qualities = [i \in 1 .. Len(sources) |-> NotDone]
    /\ completed = <<>>
    /\ rank_list = <<>>
    /\ ranked = <<>>

RankIdle ==
    /\ sources = <<>>
    /\ pc_rank = "idle"
    /\ qualities = <<>>
    /\ completed = <<>>
    /\ rank_list = <<>>
    /\ ranked = <<>>

\* the input lists of a call that inspects torrents: sources with and without
\* a download URL, with enough and with too few seeders
InspectLists ==
    UNION {{[i \in 1 .. n |-> [l[i] EXCEPT !.guid = i]] :
              l \in [1 .. n ->
                       {RefSource, [RefSource EXCEPT !.download_url = None],
                        [RefSource EXCEPT !.seeders = 1]}]} :
           n \in 0 .. MaxInspectSources}

\* the networks of a call that inspects torrents: the descriptor is served
InspectNets ==
    {Serving(UndecodableBody),
     Serving(Torrent({"announce", "info"}, {"name", "files"},
                     <<FileEntry({"length", "path"}, 450000, "01.flac"),
                       FileEntry({"length", "path"}, 150000, "02.MP3")>>)),
     Serving(Torrent({"announce", "info"}, {"name", "files"},
                     <<FileEntry({"length", "path"}, 75000, "03.aac")>>)),
     [k \in 1 .. FetchAttempts |-> NonHttpUrlRedirectClientError]}

InspectInit ==
    /\ sources \in InspectLists
    /\ pc_rank = "extract"
    /\ qualities = [i \in 1 .. Len(sources) |-> NotDone]
    /\ completed = <<>>
    /\ rank_list = <<>>
    /\ ranked = <<>>

\* one get_qualities coroutine runs extract_qualities, the network answering
\* as net, and finishes
ExtractDone(i, net) ==
    /\ pc_rank = "extract"
    /\ i \in DOMAIN qualities
    /\ ~qualities[i].done
    /\ LET run == run_extract_qualities(sources[i], book, inspection, net)
       IN  /\ qualities' = [qualities EXCEPT ![i] = Done(run)]
           /\ sources' = [sources EXCEPT ![i] = run.source]
    /\ completed' = Append(completed, i)
    /\ UNCHANGED <<book, config, inspection, ex_vars, mam_vars, q_vars, ca_vars, pc_rank, rank_list, ranked,
                   cmp_vars, en_vars>>

\* await asyncio.gather(*coros) returns (or raises what a coroutine raised)
Gather ==
    /\ pc_rank = "extract"
    /\ \A i \in DOMAIN qualities : qualities[i].done
    /\ IF \E i \in DOMAIN qualities : qualities[i].raised
       THEN /\ pc_rank' = "raised"
            /\ UNCHANGED rank_list
       ELSE /\ pc_rank' = "sort"
            /\ rank_list' = gather(qualities, completed)
    /\ UNCHANGED <<book, config, inspection, ex_vars, mam_vars, q_vars, ca_vars, sources, qualities, completed, ranked, cmp_vars,
                   en_vars>>

\* compare = CompareSource(session, book); rank_sources.sort(...); return
SortAndReturn ==
    /\ pc_rank = "sort"
    /\ rank_list' = list_sort(rank_list)
    /\ ranked' = [i \in 1 .. Len(rank_list) |-> rank_list'[i].source]
    /\ pc_rank' = "done"
    /\ UNCHANGED <<book, config, inspection, ex_vars, mam_vars, q_vars, ca_vars, sources, qualities, completed, cmp_vars, en_vars>>

----------------------------------------------------------------------------
(* One call of CompareSource.compare, in both directions *)

RankSourceOf(source) ==
    [source |-> source, quality |-> extract_qualities(source, book).qualities[1]]

CompareInit ==
    /\ \E l \in InputPairs :
          /\ cmp_a = RankSourceOf(l[1])
          /\ cmp_b = RankSourceOf(l[2])
    /\ cmp_pc = "call"
    /\ cmp_ab = 0
    /\ cmp_ba = 0

CompareIdle ==
    /\ cmp_a = None
    /\ cmp_b = None
    /\ cmp_pc = "idle"
    /\ cmp_ab = 0
    /\ cmp_ba = 0

Compare ==
    /\ cmp_pc = "call"
    /\ cmp_ab' = compare(cmp_a, cmp_b)
    /\ cmp_ba' = compare(cmp_b, cmp_a)
    /\ cmp_pc' = "done"
    /\ UNCHANGED <<book, config, inspection, ex_vars, mam_vars, q_vars, ca_vars, cmp_a, cmp_b, rank_vars, en_vars>>

----------------------------------------------------------------------------
(* One call of extract_qualities *)

\* format words added to a title, in either case, alone and several at once
KeywordTitles ==
    {{"flac"}, {"m4b"}, {"audiobook"},
     {"FLAC", "MP3"}, {"m4b", "flac"}, {"Audiobook", "M4B"},
     {"audiobook", "m4b", "flac", "mp3"}}

\* the sources handed to the call: with and without a download URL, with and
\* without a format word in the title, of two sizes; and sources without a
\* download URL whose titles have other format words
ExtractSources ==
    {[RefSource EXCEPT !.download_url = u, !.title = t, !.size = z] :
        u \in {RefSource.download_url, None},
        t \in {RefSource.title, RefSource.title \cup {"mp3"}},
        z \in {750000, 3000000}}
    \cup
    {[RefSource EXCEPT !.download_url = None, !.title = RefSource.title \cup t] :
        t \in KeywordTitles}

ExtractBooks == {PlainBook, ZeroRuntimeBook, LongBook}

NoResult == [raised |-> FALSE, qualities |-> <<>>]

ExtractInit ==
    /\ ex_pc = "call"
    /\ ex_source \in ExtractSources
    /\ ex_seen = <<>>
    /\ ex_result = NoResult

ExtractIdle ==
    /\ ex_pc = "idle"
    /\ ex_source = None
    /\ ex_seen = <<>>
    /\ ex_result = NoResult

\* await extract_qualities(session, client_session, source, book), the network
\* answering as net
Extract(net) ==
    /\ ex_pc = "call"
    /\ LET run == run_extract_qualities(ex_source, book, inspection, net)
       IN  /\ ex_result' = [raised |-> run.raised, qualities |-> run.qualities]
           /\ ex_source' = run.source
           /\ ex_seen' = run.seen
    /\ ex_pc' = "done"
    /\ UNCHANGED <<book, config, inspection, rank_vars, cmp_vars, en_vars,
                   mam_vars, q_vars, ca_vars>>

----------------------------------------------------------------------------
(* source_metadata.py: edit_source_metadata *)

\* plugins registered in the list indexers, in registration order
MaxPlugins == 2
\* sources handed to one enrichment call
MaxEnrichSources == 2

Plugins == 1 .. MaxPlugins

EnrichSources == 1 .. MaxEnrichSources

\* the fields a plugin declares in its Configurations, in declaration order;
\* a default is written as the string that converts to it
IndexerConfigurations ==
    <<[key |-> "session_id", type |-> "str", required |-> TRUE, default |-> None],
      [key |-> "source_ttl", type |-> "int", required |-> FALSE, default |-> "10"],
      [key |-> "active", type |-> "bool", required |-> FALSE, default |-> "true"]>>

\* the values indexer_configuration_cache holds for the fields of one plugin:
\* all set, the required one not set, the integer not a number, the checkbox
\* cleared (the settings page stores "true" or "")
StoredConfigs ==
    {[session_id |-> "x", source_ttl |-> "7", active |-> "true"],
     [session_id |-> None, source_ttl |-> "7", active |-> "true"],
     [session_id |-> "x", source_ttl |-> "x", active |-> "true"],
     [session_id |-> "x", source_ttl |-> None, active |-> ""]}

\* int(config_value) and float(config_value): [raised, value]
parse_number(config_value) ==
    CASE config_value = "7" -> [raised |-> FALSE, value |-> 7]
      [] config_value = "10" -> [raised |-> FALSE, value |-> 10]
      [] OTHER -> [raised |-> TRUE, value |-> 0]

\* the configuration value of a field: the stored one, or the default
config_value_of(field, stored) ==
    IF stored[field.key] = None THEN field.default ELSE stored[field.key]

RECURSIVE first_configuration_error(_, _, _)
\* the exception the loop over the fields raises from field i on, None when
\* it raises none
first_configuration_error(fields, stored, i) ==
    IF i > Len(fields) THEN None
    ELSE LET config_value == config_value_of(fields[i], stored)
         IN  IF fields[i].required /\ config_value = None
             THEN "MissingRequiredException"
             ELSE IF /\ config_value # None
                     /\ fields[i].type \in {"int", "float"}
                     /\ parse_number(config_value).raised
             THEN "InvalidTypeException"
             ELSE first_configuration_error(fields, stored, i + 1)

\* create_valued_configuration(config, session): [raised, valued], valued
\* being the attributes set on the ValuedConfigurations object
create_valued_configuration(fields, stored) ==
    [raised |-> first_configuration_error(fields, stored, 1),
     valued |->
        [i \in DOMAIN fields |->
            LET config_value == config_value_of(fields[i], stored)
            IN  IF config_value = None
                THEN [key |-> fields[i].key, is_none |-> TRUE, str |-> "",
                      number |-> 0, bool |-> FALSE]
                ELSE [key |-> fields[i].key, is_none |-> FALSE,
                      str |-> IF fields[i].type = "str" THEN config_value ELSE "",
                      number |-> IF fields[i].type \in {"int", "float"}
                                 THEN parse_number(config_value).value ELSE 0,
                      bool |-> fields[i].type = "bool" /\ config_value # ""]]]

\* indexer.is_active(container, valued_configuration): the plugin's checkbox
is_active(valued) ==
    \E i \in DOMAIN valued : valued[i].key = "active" /\ valued[i].bool

\* the loops over sources and valued, with the break after a match, continued
\* after the plugin at position k answered on source src
next_position_no_break(src, k, matched, n_valued) ==
    IF k < n_valued
    THEN [src |-> src, k |-> k + 1]
    ELSE [src |-> src + 1, k |-> 1]

\* position of the next is_matching_source call of
\*   for source in sources: for indexer, _ in valued: if ...: ...; break
next_position(src, k, matched, n_valued) ==
    IF matched \/ k >= n_valued
    THEN [src |-> src + 1, k |-> 1]
    ELSE [src |-> src, k |-> k + 1]

EnrichInit ==
    /\ en_pc = "config"
    /\ en_i = 1
    /\ en_stored = <<>>
    /\ en_valued = <<>>
    /\ en_setup = [p \in Plugins |-> "none"]
    /\ en_src = 1
    /\ en_k = 1
    /\ en_asked = [s \in EnrichSources |-> [p \in Plugins |-> "notasked"]]
    /\ en_coros = <<>>
    /\ en_task = <<>>
    /\ en_marks = [s \in EnrichSources |-> {}]
    /\ en_raised = "none"

EnrichIdle ==
    /\ en_pc = "idle"
    /\ en_i = 1
    /\ en_stored = <<>>
    /\ en_valued = <<>>
    /\ en_setup = <<>>
    /\ en_src = 1
    /\ en_k = 1
    /\ en_asked = <<>>
    /\ en_coros = <<>>
    /\ en_task = <<>>
    /\ en_marks = <<>>
    /\ en_raised = "none"

\* one round of "for Indexer in indexers": the configuration is created from
\* the stored values, or ConfigurationException is caught and the plugin is
\* left out of valued
Configure(stored) ==
    /\ en_pc = "config"
    /\ en_i <= MaxPlugins
    /\ en_stored' = Append(en_stored, stored)
    /\ en_valued' =
          IF create_valued_configuration(IndexerConfigurations, stored).raised = None
          THEN Append(en_valued, en_i)
          ELSE en_valued
    /\ en_i' = en_i + 1
    /\ UNCHANGED <<book, config, inspection, ex_vars, mam_vars, q_vars, ca_vars, rank_vars, cmp_vars, en_pc,
                   en_setup, en_src, en_k, en_asked, en_coros, en_task, en_marks,
                   en_raised>>

\* coros = [indexer.setup(...) for indexer, valued in valued]; gather starts them
StartSetup ==
    /\ en_pc = "config"
    /\ en_i > MaxPlugins
    /\ en_pc' = "setup"
    /\ en_setup' = [p \in Plugins |->
                      IF \E k \in DOMAIN en_valued : en_valued[k] = p
                      THEN "pending" ELSE "none"]
    /\ UNCHANGED <<book, config, inspection, ex_vars, mam_vars, q_vars, ca_vars, rank_vars, cmp_vars, en_stored, en_i, en_valued, en_src,
                   en_k, en_asked, en_coros, en_task, en_marks, en_raised>>

\* one setup() coroutine returns or raises; gather keeps the exception
SetupDone(p, outcome) ==
    /\ en_pc = "setup"
    /\ en_setup[p] = "pending"
    /\ en_setup' = [en_setup EXCEPT ![p] = outcome]
    /\ UNCHANGED <<book, config, inspection, ex_vars, mam_vars, q_vars, ca_vars, rank_vars, cmp_vars, en_stored, en_pc, en_i, en_valued,
                   en_src, en_k, en_asked, en_coros, en_task, en_marks, en_raised>>

\* the state the call is in when the matching loops are at (src, k): still
\* matching, or at the second gather with its coroutines started
AfterMatch(pos, coros) ==
    IF pos.src <= MaxEnrichSources /\ Len(en_valued) > 0
    THEN /\ en_pc' = "match"
         /\ en_src' = pos.src
         /\ en_k' = pos.k
         /\ en_task' = en_task
    ELSE /\ en_pc' = "edit"
         /\ en_src' = MaxEnrichSources + 1
         /\ en_k' = 1
         /\ en_task' = [c \in DOMAIN coros |-> "pending"]

\* a gather that is not awaited
setups_not_awaited == TRUE

\* await asyncio.gather(*coros, ...): every setup() coroutine has finished
setups_finished == \A p \in Plugins : en_setup[p] # "pending"

\* await asyncio.gather(*coros, return_exceptions=True) returns; coros = []
SetupGather ==
    /\ en_pc = "setup"
    /\ setups_finished
    /\ en_coros' = <<>>
    /\ AfterMatch([src |-> 1, k |-> 1], <<>>)
    /\ UNCHANGED <<book, config, inspection, ex_vars, mam_vars, q_vars, ca_vars, rank_vars, cmp_vars, en_stored, en_i, en_valued, en_setup,
                   en_asked, en_marks, en_raised>>

\* await indexer.is_matching_source(source, container) answers or raises
Match(answer) ==
    /\ en_pc = "match"
    /\ LET p == en_valued[en_k]
           coros == IF answer = "true"
                    THEN Append(en_coros, [plugin |-> p, source |-> en_src])
                    ELSE en_coros
       IN  /\ en_asked' = [en_asked EXCEPT ![en_src][p] = answer]
           /\ IF answer = "raised"
              THEN /\ en_pc' = "raised"
                   /\ en_raised' = "is_matching_source"
                   /\ UNCHANGED <<en_src, en_k, en_coros, en_task>>
              ELSE /\ en_coros' = coros
                   /\ en_raised' = en_raised
                   /\ AfterMatch(next_position(en_src, en_k, answer = "true",
                                               Len(en_valued)), coros)
    /\ UNCHANGED <<book, config, inspection, ex_vars, mam_vars, q_vars, ca_vars, rank_vars, cmp_vars, en_stored, en_i, en_valued, en_setup,
                   en_marks>>

\* one edit_source_metadata coroutine runs on its source and returns or raises
EditDone(c, outcome) ==
    /\ en_pc = "edit"
    /\ c \in DOMAIN en_task
    /\ en_task[c] = "pending"
    /\ en_task' = [en_task EXCEPT ![c] = outcome]
    /\ en_marks' = [en_marks EXCEPT
                      ![en_coros[c].source] = @ \cup {en_coros[c].plugin}]
    /\ UNCHANGED <<book, config, inspection, ex_vars, mam_vars, q_vars, ca_vars, rank_vars, cmp_vars, en_stored, en_pc, en_i, en_valued,
                   en_setup, en_src, en_k, en_asked, en_coros, en_raised>>

\* the second gather returns and so does edit_source_metadata
EditGather ==
    /\ en_pc = "edit"
    /\ \A c \in DOMAIN en_task : en_task[c] # "pending"
    /\ en_pc' = "returned"
    /\ UNCHANGED <<book, config, inspection, ex_vars, mam_vars, q_vars, ca_vars, rank_vars, cmp_vars, en_stored, en_i, en_valued, en_setup,
                   en_src, en_k, en_asked, en_coros, en_task, en_marks, en_raised>>

----------------------------------------------------------------------------
(* MamIndexer.enrichResults *)

\* longest list of results handed to enrichResults
MaxResults == 2

\* guids of MyAnonamouse torrents, and the guid of a torrent of another indexer
MamGuids ==
    {"https://www.myanonamouse.net/t/1", "https://www.myanonamouse.net/t/2"}

OtherGuid == "https://tracker.example/details/9"

\* the TorrentSource query_mam builds from one search result
mam_result(guid, personal_freeleech, authors, narrators) ==
    [guid |-> guid,
     indexer_flags |-> IF personal_freeleech = 1 THEN {"freeleech"} ELSE {},
     authors |-> authors,
     narrators |-> narrators]

\* a dict without entries; where mam_source_cache.get returns None (nothing
\* stored, or an entry older than source_ttl) the model has this falsy value
NoEntries == <<>>

\* the dicts (guid -> TorrentSource) a MyAnonamouse search may give
MamAnswers ==
    {[g \in {} |-> mam_result(g, 0, <<>>, <<>>)],
     [g \in {"https://www.myanonamouse.net/t/1"} |->
         mam_result(g, 1, <<"Frank Herbert">>, <<"Simon Vance">>)],
     [g \in MamGuids |->
         IF g = "https://www.myanonamouse.net/t/1"
         THEN mam_result(g, 0, <<"Frank Herbert">>, <<>>)
         ELSE mam_result(g, 1, <<"Brian Herbert">>, <<"Scott Brick">>)]}

\* the sources Prowlarr returned, as far as enrichResults reads or writes them
MamResultSources ==
    {[guid |-> g, indexer_flags |-> f, authors |-> a, narrators |-> a] :
        g \in MamGuids \cup {OtherGuid},
        f \in {{}, {"internal"}},
        a \in {<<>>, <<"Unknown">>}}

\* the stored values of mam_active and mam_session_id
MamConfigs ==
    {[mam_active |-> "True", mam_session_id |-> "mam-id"],
     [mam_active |-> "False", mam_session_id |-> "mam-id"],
     [mam_active |-> None, mam_session_id |-> "mam-id"],
     [mam_active |-> "True", mam_session_id |-> ""],
     [mam_active |-> "True", mam_session_id |-> None]}

\* MamConfig.is_active
mam_is_active(stored) == stored.mam_active = "True"

\* MamConfig.is_valid
mam_is_valid(stored) ==
    stored.mam_session_id # None /\ stored.mam_session_id # ""

\* the outcomes of the search request: an exception of the client, or the
\* dict built from the response
MamFetches ==
    {[raised |-> TRUE, data |-> NoEntries]}
    \cup {[raised |-> FALSE, data |-> a] : a \in MamAnswers}

\* query_mam: cached is what mam_source_cache.get returns, fetched the
\* outcome of the search request
query_mam(query, force_refresh, cached, fetched) ==
    IF query = ""
    THEN [raised |-> FALSE, sources |-> NoEntries, cache |-> cached]
    ELSE IF ~force_refresh /\ DOMAIN cached # {}
    THEN [raised |-> FALSE, sources |-> cached, cache |-> cached]
    ELSE IF fetched.raised
    THEN [raised |-> TRUE, sources |-> NoEntries, cache |-> cached]
    ELSE [raised |-> FALSE, sources |-> fetched.data, cache |-> fetched.data]

\* the body of the loop over results
enriched(r, mam_sources) ==
    IF r.guid \notin DOMAIN mam_sources
    THEN r
    ELSE [r EXCEPT !.authors = mam_sources[r.guid].authors,
                   !.narrators = mam_sources[r.guid].narrators]

MamInit ==
    /\ mam_pc = "call"
    /\ mam_config \in MamConfigs
    /\ mam_query \in {"", "dune herbert"}
    /\ mam_results \in UNION {[1 .. n -> MamResultSources] : n \in 0 .. MaxResults}
    /\ mam_cached \in MamAnswers

MamIdle ==
    /\ mam_pc = "idle"
    /\ mam_config = None
    /\ mam_query = ""
    /\ mam_results = <<>>
    /\ mam_cached = NoEntries

\* await indexer.enrichResults(client_session, query, results, force_refresh)
EnrichResults(force_refresh, fetched) ==
    /\ mam_pc = "call"
    /\ IF ~mam_is_active(mam_config) \/ ~mam_is_valid(mam_config)
       THEN /\ mam_pc' = "done"
            /\ UNCHANGED <<mam_results, mam_cached>>
       ELSE LET q == query_mam(mam_query, force_refresh, mam_cached, fetched)
            IN  IF q.raised
                THEN /\ mam_pc' = "raised"
                     /\ UNCHANGED <<mam_results, mam_cached>>
                ELSE /\ mam_pc' = "done"
                     /\ mam_results' = [i \in DOMAIN mam_results |->
                                           enriched(mam_results[i], q.sources)]
                     /\ mam_cached' = q.cache
    /\ UNCHANGED <<book, config, inspection, rank_vars, cmp_vars, en_vars, ex_vars,
                   mam_config, mam_query, q_vars, ca_vars>>

----------------------------------------------------------------------------
(* query_sources *)

\* query_sources calls that may be in progress at once
MaxCalls == 2
\* most BookRequest rows of the database
MaxRows == 2

Asins == {"B002V1A0WE", "B00B5HZGUG"}

\* Optional[list]: None, and a list
Nothing == {}

Some(l) == {l}

TheList(o) == CHOOSE l \in o : TRUE

\* the BookRequest rows the calls start from: several users may have
\* requested one book, and a row added after a download is not downloaded
RowLists ==
    UNION {[1 .. n -> [asin : Asins, downloaded : BOOLEAN]] : n \in 0 .. MaxRows}

\* what .first() gives when no row has the ASIN
NoBook == [asin |-> None, downloaded |-> FALSE]

\* session.exec(select(BookRequest).where(BookRequest.asin == asin)).first()
first_book(rs, asin) ==
    LET idx == {i \in DOMAIN rs : rs[i].asin = asin}
    IN  IF idx = {} THEN NoBook
        ELSE rs[CHOOSE i \in idx : \A j \in idx : i <= j]

\* a test that finds no ASIN in the set
being_queried_never(asin, q) == FALSE

\* if asin in querying
being_queried(asin, q) == asin \in q

\* manage_queried before the yield: querying.add(asin)
manage_queried_enter(q, asin) == q \cup {asin}

\* leaving the with block without the removal
manage_queried_exit_kept(q, asin) == q

\* manage_queried, the finally clause: querying.remove(asin), KeyError ignored
manage_queried_exit(q, asin) == q \ {asin}

\* the test for a download without the flag of the book
download_wanted_again(start_auto_download, bk, ranked_list) ==
    start_auto_download /\ Len(ranked_list) > 0

\* if start_auto_download and not book.downloaded and len(ranked) > 0
download_wanted(start_auto_download, bk, ranked_list) ==
    start_auto_download /\ ~bk.downloaded /\ Len(ranked_list) > 0

\* an update of the first row with the ASIN alone
mark_downloaded_first(rs, asin) ==
    [i \in DOMAIN rs |->
        IF rs[i].asin = asin /\ \A j \in 1 .. i - 1 : rs[j].asin # asin
        THEN [rs[i] EXCEPT !.downloaded = TRUE]
        ELSE rs[i]]

\* for b in same_books: b.downloaded = True; session.add(b); session.commit()
mark_downloaded(rs, asin) ==
    [i \in DOMAIN rs |->
        IF rs[i].asin = asin THEN [rs[i] EXCEPT !.downloaded = TRUE] ELSE rs[i]]

\* the sources query_prowlarr may return, as far as query_sources reads them
QuerySourceA == [guid |-> "guid-a", indexer_id |-> 1]

QuerySourceB == [guid |-> "guid-b", indexer_id |-> 2]

QuerySourceLists == {<<>>, <<QuerySourceA>>, <<QuerySourceA, QuerySourceB>>}

\* the lists rank_sources may return for a list: the same sources in some order
Rankings(l) ==
    {r \in [DOMAIN l -> {l[i] : i \in DOMAIN l}] :
        \A i, j \in DOMAIN l : i # j => r[i] # r[j]}

NoQueryResult == [state |-> None, sources |-> Nothing]

\* a call that was not started yet
NewCall(asin, start_auto_download) ==
    [pc |-> "start", asin |-> asin, start_auto_download |-> start_auto_download,
     book |-> NoBook, sources |-> Nothing, ranked |-> Nothing, resp |-> None,
     result |-> NoQueryResult, error |-> None]

QueryInit ==
    /\ querying = {}
    /\ rows \in RowLists
    /\ calls \in [1 .. MaxCalls ->
                    {NewCall(a, d) : a \in Asins, d \in BOOLEAN}]
    /\ downloads = <<>>

QueryIdle ==
    /\ querying = {}
    /\ rows = <<>>
    /\ calls = <<>>
    /\ downloads = <<>>

\* query_sources from its first line to its first await: the book is read,
\* the set querying is tested and entered, the Prowlarr configuration is
\* checked (valid: base url and API key are set)
Enter(c, valid) ==
    /\ c \in DOMAIN calls
    /\ calls[c].pc = "start"
    /\ LET asin == calls[c].asin
           bk == first_book(rows, asin)
       IN  IF bk = NoBook
           THEN /\ calls' = [calls EXCEPT ![c].pc = "raised",
                                          ![c].error = "HTTP 404"]
                /\ UNCHANGED querying
           ELSE IF being_queried(asin, querying)
           THEN /\ calls' = [calls EXCEPT
                                ![c].pc = "returned",
                                ![c].book = bk,
                                ![c].result = [state |-> "querying",
                                               sources |-> Nothing]]
                /\ UNCHANGED querying
           ELSE IF ~valid
           THEN /\ calls' = [calls EXCEPT ![c].pc = "raised",
                                          ![c].book = bk,
                                          ![c].error = "ProwlarrMisconfigured"]
                /\ querying' = manage_queried_exit(
                                   manage_queried_enter(querying, asin), asin)
           ELSE /\ calls' = [calls EXCEPT ![c].pc = "query_prowlarr",
                                          ![c].book = bk]
                /\ querying' = manage_queried_enter(querying, asin)
    /\ UNCHANGED <<book, config, inspection, rank_vars, cmp_vars, en_vars, ex_vars,
                   mam_vars, rows, downloads, ca_vars>>

\* await query_prowlarr(...) is over: it raised, returned None (nothing
\* cached) or returned a list
ProwlarrDone(c, raised, found) ==
    /\ c \in DOMAIN calls
    /\ calls[c].pc = "query_prowlarr"
    /\ IF raised
       THEN /\ calls' = [calls EXCEPT ![c].pc = "raised",
                                      ![c].error = "query_prowlarr raised"]
            /\ querying' = manage_queried_exit(querying, calls[c].asin)
       ELSE IF found = Nothing
       THEN /\ calls' = [calls EXCEPT
                            ![c].pc = "returned",
                            ![c].result = [state |-> "uncached",
                                           sources |-> Nothing]]
            /\ querying' = manage_queried_exit(querying, calls[c].asin)
       ELSE /\ calls' = [calls EXCEPT ![c].pc = "rank_sources",
                                      ![c].sources = found]
            /\ UNCHANGED querying
    /\ UNCHANGED <<book, config, inspection, rank_vars, cmp_vars, en_vars, ex_vars,
                   mam_vars, rows, downloads, ca_vars>>

\* await rank_sources(...) is over: it raised (an extraction error) or
\* returned the list ranked; start_download is called or the call returns
RankDone(c, raised, ranked_list) ==
    /\ c \in DOMAIN calls
    /\ calls[c].pc = "rank_sources"
    /\ IF raised
       THEN /\ calls' = [calls EXCEPT ![c].pc = "raised",
                                      ![c].error = "rank_sources raised"]
            /\ querying' = manage_queried_exit(querying, calls[c].asin)
            /\ UNCHANGED downloads
       ELSE /\ ranked_list \in Rankings(TheList(calls[c].sources))
            /\ IF download_wanted(calls[c].start_auto_download,
                                  calls[c].book, ranked_list)
               THEN /\ calls' = [calls EXCEPT ![c].pc = "start_download",
                                              ![c].ranked = Some(ranked_list)]
                    /\ downloads' = Append(downloads,
                                           [call |-> c,
                                            guid |-> ranked_list[1].guid,
                                            indexer_id |-> ranked_list[1].indexer_id,
                                            book_asin |-> calls[c].asin])
                    /\ UNCHANGED querying
               ELSE /\ calls' = [calls EXCEPT
                                    ![c].pc = "returned",
                                    ![c].ranked = Some(ranked_list),
                                    ![c].result = [state |-> "ok",
                                                   sources |-> Some(ranked_list)]]
                    /\ querying' = manage_queried_exit(querying, calls[c].asin)
                    /\ UNCHANGED downloads
    /\ UNCHANGED <<book, config, inspection, rank_vars, cmp_vars, en_vars, ex_vars,
                   mam_vars, rows, ca_vars>>

\* await start_download(...) is over: it raised, or returned a response that
\* is ok or not
DownloadDone(c, outcome) ==
    /\ c \in DOMAIN calls
    /\ calls[c].pc = "start_download"
    /\ IF outcome = "raised"
       THEN /\ calls' = [calls EXCEPT ![c].pc = "raised",
                                      ![c].error = "start_download raised"]
            /\ UNCHANGED rows
       ELSE IF outcome = "ok"
       THEN /\ rows' = mark_downloaded(rows, calls[c].asin)
            /\ calls' = [calls EXCEPT
                            ![c].pc = "returned",
                            ![c].resp = "ok",
                            ![c].result = [state |-> "ok",
                                           sources |-> calls[c].ranked]]
       ELSE /\ calls' = [calls EXCEPT ![c].pc = "raised",
                                      ![c].resp = "not ok",
                                      ![c].error = "HTTP 500"]
            /\ UNCHANGED rows
    /\ querying' = manage_queried_exit(querying, calls[c].asin)
    /\ UNCHANGED <<book, config, inspection, rank_vars, cmp_vars, en_vars, ex_vars,
                   mam_vars, downloads, ca_vars>>

----------------------------------------------------------------------------
(* SimpleCache *)

\* last reading of the clock, in half seconds
MaxTime == 2

\* the SimpleCache instances the modules create when they are loaded
Instances ==
    {"prowlarr_source_cache", "prowlarr_indexer_cache", "mam_source_cache"}

\* what each instance is given to store: a list of sources, an Indexer, a
\* dict of MyAnonamouse results
CacheValue(i) ==
    [type |-> IF i = "prowlarr_source_cache" THEN "list[ProwlarrSource]"
              ELSE IF i = "prowlarr_indexer_cache" THEN "Indexer"
              ELSE "dict[str, TorrentSource]"]

\* the keys each instance is called with: (query,), (str(indexer.id),) and
\* ("mam", query)
CacheKeys(i) ==
    IF i = "prowlarr_source_cache" THEN {<<"dune herbert">>, <<"dune messiah">>}
    ELSE IF i = "prowlarr_indexer_cache" THEN {<<"1">>}
    ELSE {<<"mam", "dune herbert">>}

\* values of source_ttl, in seconds
SourceTtls == {0, 1}

\* time.time() is now / 2; int(time.time())
int_time(t) == t \div 2

\* a dict is the set of its entries (key, (cached_at, sources))
EmptyDict == {}

\* self._cache: the attribute of the instance when flush has assigned one,
\* the attribute of the class otherwise
self_cache(i, class_dict, own) ==
    IF own[i] = Nothing THEN class_dict ELSE CHOOSE d \in own[i] : TRUE

\* d[query] = (cached_at, sources)
dict_set(d, query, cached_at, value) ==
    {e \in d : e.key # query}
    \cup {[key |-> query, cached_at |-> cached_at, sources |-> value]}

\* SimpleCache.get: None is Nothing
cache_get(d, source_ttl, query, t) ==
    LET hits == {e \in d : e.key = query}
    IN  {e.sources : e \in {h \in hits : ~((h.cached_at + source_ttl) * 2 < t)}}

\* SimpleCache.get_all, the values of the dict it returns
cache_get_all(d, source_ttl, t) ==
    {e.sources : e \in {h \in d : h.cached_at + source_ttl > int_time(t)}}

NoCall == [op |-> "none", instance |-> None, returned |-> {}]

CacheInit ==
    /\ class_cache = EmptyDict
    /\ own_cache = [i \in Instances |-> Nothing]
    /\ now = 0
    /\ ca_last = NoCall

CacheIdle ==
    /\ class_cache = EmptyDict
    /\ own_cache = <<>>
    /\ now = 0
    /\ ca_last = NoCall

\* instance.set(sources, *query)
CacheSet(i, query) ==
    /\ i \in DOMAIN own_cache
    /\ LET d == dict_set(self_cache(i, class_cache, own_cache), query,
                         int_time(now), CacheValue(i))
       IN  IF own_cache[i] = Nothing
           THEN class_cache' = d /\ UNCHANGED own_cache
           ELSE own_cache' = [own_cache EXCEPT ![i] = Some(d)]
                /\ UNCHANGED class_cache
    /\ ca_last' = [op |-> "set", instance |-> i, returned |-> {}]
    /\ UNCHANGED <<book, config, inspection, rank_vars, cmp_vars, en_vars, ex_vars,
                   mam_vars, q_vars, now>>

\* instance.get(source_ttl, *query)
CacheGet(i, source_ttl, query) ==
    /\ i \in DOMAIN own_cache
    /\ ca_last' = [op |-> "get", instance |-> i,
                   returned |-> cache_get(self_cache(i, class_cache, own_cache),
                                          source_ttl, query, now)]
    /\ UNCHANGED <<book, config, inspection, rank_vars, cmp_vars, en_vars, ex_vars,
                   mam_vars, q_vars, class_cache, own_cache, now>>

\* instance.get_all(source_ttl)
CacheGetAll(i, source_ttl) ==
    /\ i \in DOMAIN own_cache
    /\ ca_last' = [op |-> "get_all", instance |-> i,
                   returned |-> cache_get_all(
                                    self_cache(i, class_cache, own_cache),
                                    source_ttl, now)]
    /\ UNCHANGED <<book, config, inspection, rank_vars, cmp_vars, en_vars, ex_vars,
                   mam_vars, q_vars, class_cache, own_cache, now>>

\* instance.flush()
CacheFlush(i) ==
    /\ i \in DOMAIN own_cache
    /\ own_cache' = [own_cache EXCEPT ![i] = Some(EmptyDict)]
    /\ ca_last' = [op |-> "flush", instance |-> i, returned |-> {}]
    /\ UNCHANGED <<book, config, inspection, rank_vars, cmp_vars, en_vars, ex_vars,
                   mam_vars, q_vars, class_cache, now>>

\* half a second passes
Tick ==
    /\ DOMAIN own_cache # {}
    /\ now < MaxTime
    /\ now' = now + 1
    /\ UNCHANGED <<book, config, inspection, rank_vars, cmp_vars, en_vars, ex_vars,
                   mam_vars, q_vars, class_cache, own_cache, ca_last>>

----------------------------------------------------------------------------
(* Specifications *)

InitRank ==
    /\ book \in Books
    /\ config \in Configs
    /\ inspection = ENABLE_TORRENT_INSPECTION
    /\ RankInit
    /\ CompareIdle
    /\ EnrichIdle
    /\ ExtractIdle
    /\ MamIdle
    /\ QueryIdle
    /\ CacheIdle

NextRank ==
    \/ \E i \in 1 .. MaxSources : ExtractDone(i, Offline)
    \/ Gather
    \/ SortAndReturn

SpecRank == InitRank /\ [][NextRank]_vars

InitCompare ==
    /\ book \in Books
    /\ config \in Configs
    /\ inspection = ENABLE_TORRENT_INSPECTION
    /\ RankIdle
    /\ CompareInit
    /\ EnrichIdle
    /\ ExtractIdle
    /\ MamIdle
    /\ QueryIdle
    /\ CacheIdle

NextCompare == Compare

SpecCompare == InitCompare /\ [][NextCompare]_vars

InitEnrich ==
    /\ book = PlainBook
    /\ config = DefaultConfig
    /\ inspection = ENABLE_TORRENT_INSPECTION
    /\ RankIdle
    /\ CompareIdle
    /\ EnrichInit
    /\ ExtractIdle
    /\ MamIdle
    /\ QueryIdle
    /\ CacheIdle

NextEnrich ==
    \/ \E stored \in StoredConfigs : Configure(stored)
    \/ StartSetup
    \/ \E p \in Plugins, outcome \in {"returned", "raised"} : SetupDone(p, outcome)
    \/ SetupGather
    \/ \E answer \in {"true", "false", "raised"} : Match(answer)
    \/ \E c \in 1 .. MaxEnrichSources, outcome \in {"returned", "raised"} :
          EditDone(c, outcome)
    \/ EditGather

SpecEnrich == InitEnrich /\ [][NextEnrich]_vars

InitExtract ==
    /\ book \in ExtractBooks
    /\ config = DefaultConfig
    /\ inspection \in BOOLEAN
    /\ RankIdle
    /\ CompareIdle
    /\ EnrichIdle
    /\ ExtractInit
    /\ MamIdle
    /\ QueryIdle
    /\ CacheIdle

NextExtract == \E net \in Nets : Extract(net)

SpecExtract == InitExtract /\ [][NextExtract]_vars

InitInspect ==
    /\ book \in {PlainBook, ZeroRuntimeBook}
    /\ config = DefaultConfig
    /\ inspection \in BOOLEAN
    /\ InspectInit
    /\ CompareIdle
    /\ EnrichIdle
    /\ ExtractIdle
    /\ MamIdle
    /\ QueryIdle
    /\ CacheIdle

NextInspect ==
    \/ \E i \in 1 .. MaxInspectSources, net \in InspectNets : ExtractDone(i, net)
    \/ Gather
    \/ SortAndReturn

SpecInspect == InitInspect /\ [][NextInspect]_vars

InitMam ==
    /\ book = PlainBook
    /\ config = DefaultConfig
    /\ inspection = ENABLE_TORRENT_INSPECTION
    /\ RankIdle
    /\ CompareIdle
    /\ EnrichIdle
    /\ ExtractIdle
    /\ MamInit
    /\ QueryIdle
    /\ CacheIdle

NextMam ==
    \E force_refresh \in BOOLEAN, fetched \in MamFetches :
        EnrichResults(force_refresh, fetched)

SpecMam == InitMam /\ [][NextMam]_vars

InitQuery ==
    /\ book = PlainBook
    /\ config = DefaultConfig
    /\ inspection = ENABLE_TORRENT_INSPECTION
    /\ RankIdle
    /\ CompareIdle
    /\ EnrichIdle
    /\ ExtractIdle
    /\ MamIdle
    /\ QueryInit
    /\ CacheIdle

NextQuery ==
    \/ \E c \in 1 .. MaxCalls, valid \in BOOLEAN : Enter(c, valid)
    \/ \E c \in 1 .. MaxCalls, raised \in BOOLEAN,
          found \in {Nothing} \cup {Some(l) : l \in QuerySourceLists} :
          ProwlarrDone(c, raised, found)
    \/ \E c \in 1 .. MaxCalls, raised \in BOOLEAN,
          ranked_list \in UNION {Rankings(l) : l \in QuerySourceLists} :
          RankDone(c, raised, ranked_list)
    \/ \E c \in 1 .. MaxCalls, outcome \in {"ok", "not ok", "raised"} :
          DownloadDone(c, outcome)

SpecQuery == InitQuery /\ [][NextQuery]_vars

InitCache ==
    /\ book = PlainBook
    /\ config = DefaultConfig
    /\ inspection = ENABLE_TORRENT_INSPECTION
    /\ RankIdle
    /\ CompareIdle
    /\ EnrichIdle
    /\ ExtractIdle
    /\ MamIdle
    /\ QueryIdle
    /\ CacheInit

NextCache ==
    \/ \E i \in Instances : \E query \in CacheKeys(i) : CacheSet(i, query)
    \/ \E i \in Instances, source_ttl \in SourceTtls :
          \E query \in CacheKeys(i) : CacheGet(i, source_ttl, query)
    \/ \E i \in Instances, source_ttl \in SourceTtls : CacheGetAll(i, source_ttl)
    \/ \E i \in Instances : CacheFlush(i)
    \/ Tick

SpecCache == InitCache /\ [][NextCache]_vars

Init == InitRank

Next == NextRank

Spec == SpecRank

----------------------------------------------------------------------------
(* Properties *)

\* the configured range of a file format
RangeOfFormat(file_format) ==
    config.ranges[CASE file_format = "flac" -> "quality_flac"
                    [] file_format = "m4b" -> "quality_m4b"
                    [] file_format = "mp3" -> "quality_mp3"
                    [] file_format = "unknown-audio" -> "quality_unknown_audio"
                    [] file_format = "unknown" -> "quality_unknown"]

\* from_kbits < kbits < to_kbits for the range of the pair's own format
BitrateInRange(p) ==
    /\ RangeOfFormat(p.quality.file_format).from_kbits * p.quality.kbits.den
          < p.quality.kbits.num
    /\ p.quality.kbits.num
          < RangeOfFormat(p.quality.file_format).to_kbits * p.quality.kbits.den

\* validity as the specification words it
ValidPair(p) ==
    /\ BitrateInRange(p)
    /\ (p.source.protocol = "torrent" => p.source.seeders >= config.min_seeders)

\* the result of step k of compare_order alone: a tie ends the chain with 0
StepResult(k, a, b) == _get_next_compare(k - 1, a, b, Len(compare_order))

TiedUpTo(k, a, b) == \A j \in 1 .. k : StepResult(j, a, b) = 0

Sign(x) == IF x < 0 THEN -1 ELSE IF x > 0 THEN 1 ELSE 0

RECURSIVE FirstDecidingResult(_, _, _)
\* the result of the first step from k on that does not tie, 0 when all tie
FirstDecidingResult(k, a, b) ==
    IF k > Len(compare_order) THEN 0
    ELSE IF StepResult(k, a, b) # 0 THEN StepResult(k, a, b)
    ELSE FirstDecidingResult(k + 1, a, b)

RECURSIVE ExpandInInputOrder(_)
\* the (source, quality) pairs of the input list, in input order
ExpandInInputOrder(i) ==
    IF i > Len(sources) THEN <<>>
    ELSE get_qualities(sources[i], extract_qualities(sources[i], book).qualities)
         \o ExpandInInputOrder(i + 1)

\* C1: in the list rank_sources returns no invalid pair (bitrate outside the
\* range of its format, or torrent with fewer seeders than min_seeders) stands
\* before a valid pair.
C1_ValidityPartition ==
    pc_rank = "done" =>
        \A i, j \in DOMAIN rank_list :
            i < j => ~(~ValidPair(rank_list[i]) /\ ValidPair(rank_list[j]))

\* C1 witness: an invalid pair that came first in the input and wins the title
\* step is returned after a valid pair.
C1_Witness ==
    /\ pc_rank = "done"
    /\ \E i, j \in DOMAIN rank_list :
          /\ i < j
          /\ ValidPair(rank_list[i])
          /\ ~ValidPair(rank_list[j])
          /\ rank_list[j].source.guid < rank_list[i].source.guid
          /\ StepResult(2, rank_list[j], rank_list[i]) < 0

\* C2: compare is a strict total preorder on the pairs of one ranking call:
\* opposite signs in the two directions, "before" transitive, "tied" transitive.
C2_StrictTotalPreorder ==
    pc_rank \in {"sort", "done"} =>
        \A i, j, k \in DOMAIN rank_list :
            LET a == rank_list[i]
                b == rank_list[j]
                c == rank_list[k]
            IN  /\ Sign(compare(a, b)) = -Sign(compare(b, a))
                /\ (compare(a, b) < 0 /\ compare(b, c) < 0) => compare(a, c) < 0
                /\ (compare(a, b) = 0 /\ compare(b, c) = 0) => compare(a, c) = 0

\* C3: the returned order is the sort of the pair list assembled in input
\* order, whatever the order the extract_qualities calls finished in.
C3_OrderIndependentOfCompletion ==
    pc_rank = "done" =>
        /\ rank_list = list_sort(ExpandInInputOrder(1))
        /\ ranked = [i \in DOMAIN rank_list |-> rank_list[i].source]

\* C3 witness: a call returned whose extractions finished in reverse order and
\* whose output has two tied pairs.
C3_Witness ==
    /\ pc_rank = "done"
    /\ Len(completed) >= 2
    /\ \A i \in DOMAIN completed : completed[i] = Len(completed) + 1 - i
    /\ \E i, j \in DOMAIN rank_list :
          i < j /\ compare(rank_list[i], rank_list[j]) = 0

\* C7: of two returned pairs with the same protocol that tie on the nine
\* criteria before publish age, the older one is placed first when both are
\* torrents and the newer one when both are usenet.
C7_AgeDirection ==
    pc_rank = "done" =>
        \A i, j \in DOMAIN rank_list :
            LET a == rank_list[i]
                b == rank_list[j]
            IN  (/\ a.source.protocol = b.source.protocol
                 /\ TiedUpTo(9, a, b)
                 /\ IF a.source.protocol = "torrent"
                    THEN a.source.publish_date < b.source.publish_date
                    ELSE a.source.publish_date > b.source.publish_date)
                => i < j

\* C8: between a torrent pair and a usenet pair the seeders step and the age
\* step return 0, and compare returns 0 when the first eight criteria tie.
C8_ProtocolSkip ==
    (cmp_pc = "done" /\ cmp_a.source.protocol # cmp_b.source.protocol) =>
        /\ StepResult(9, cmp_a, cmp_b) = 0
        /\ StepResult(10, cmp_a, cmp_b) = 0
        /\ TiedUpTo(8, cmp_a, cmp_b) => (cmp_ab = 0 /\ cmp_ba = 0)

\* C8 witness: a torrent and a usenet pair, tied on the first eight criteria,
\* with different seeders and publish dates a second or more apart.
C8_Witness ==
    /\ cmp_pc = "done"
    /\ cmp_a.source.protocol = "usenet"
    /\ cmp_b.source.protocol = "torrent"
    /\ TiedUpTo(8, cmp_a, cmp_b)
    /\ cmp_a.source.seeders # cmp_b.source.seeders
    /\ cmp_b.source.publish_date - cmp_a.source.publish_date >= 1000
    /\ cmp_ab = 0

\* C9: the comparator treats a pair as valid iff its bitrate is strictly
\* inside the range of its own format and, for a torrent only, seeders >=
\* min_seeders: the validity step ties exactly on equal validity and otherwise
\* puts the valid pair first.
C9_ValidityRule ==
    cmp_pc = "done" =>
        /\ StepResult(1, cmp_a, cmp_b)
              = int_of_bool(ValidPair(cmp_b)) - int_of_bool(ValidPair(cmp_a))
        /\ (ValidPair(cmp_a) /\ ~ValidPair(cmp_b)) => (cmp_ab < 0 /\ cmp_ba > 0)
        /\ (ValidPair(cmp_b) /\ ~ValidPair(cmp_a)) => (cmp_ab > 0 /\ cmp_ba < 0)

\* C9 witness: a pair whose bitrate equals from_kbits of its own format's
\* range (and lies inside the range of the other pair's format) loses to a
\* valid pair; a usenet pair with no seeders is valid.
C9_Witness ==
    /\ cmp_pc = "done"
    /\ cmp_a.quality.kbits.num
          = RangeOfFormat(cmp_a.quality.file_format).from_kbits
              * cmp_a.quality.kbits.den
    /\ cmp_a.quality.file_format # cmp_b.quality.file_format
    /\ cmp_a.quality.kbits = cmp_b.quality.kbits
    /\ cmp_b.source.protocol = "usenet"
    /\ cmp_b.source.seeders < config.min_seeders
    /\ ValidPair(cmp_b)
    /\ cmp_ab > 0

\* C10: compare returns the result of the first step, in the order of
\* compare_order, that does not tie, and 0 only when all ten steps tie.
C10_FirstDecidingStep ==
    cmp_pc = "done" => cmp_ab = FirstDecidingResult(1, cmp_a, cmp_b)

\* the plugin that owns source s: the first in registration order whose
\* is_matching_source returned true
IsOwner(p, s) ==
    /\ en_asked[s][p] = "true"
    /\ \A q \in Plugins : q < p => en_asked[s][q] # "true"

\* C4: every source is edited by at most one plugin, the first in
\* registration order whose is_matching_source returned true; a source no
\* plugin matched is edited by none.
C4_SingleOwner ==
    en_pc # "idle" =>
        \A s \in EnrichSources :
            /\ Cardinality({c \in DOMAIN en_coros : en_coros[c].source = s}) <= 1
            /\ \A c \in DOMAIN en_coros :
                  en_coros[c].source = s => IsOwner(en_coros[c].plugin, s)
            /\ Cardinality(en_marks[s]) <= 1
            /\ \A p \in en_marks[s] : IsOwner(p, s)

\* C4 witness: the call returned; one source was declined by plugin 1 and
\* edited by plugin 2, another was edited by plugin 1.
C4_Witness ==
    /\ en_pc = "returned"
    /\ \E s, t \in EnrichSources :
          /\ en_asked[s][1] = "false"
          /\ en_marks[s] = {2}
          /\ en_marks[t] = {1}

\* C5: when a plugin's setup() raised, every other setup() has run to its
\* end, the sources owned by the plugins are edited and the call returns
\* without raising.
C5_SetupIsolation ==
    (en_pc \in {"returned", "raised"} /\ \E p \in Plugins : en_setup[p] = "raised")
    =>  /\ \A p \in Plugins : en_setup[p] # "pending"
        /\ en_pc = "returned"
        /\ \A s \in EnrichSources, p \in Plugins : IsOwner(p, s) => p \in en_marks[s]

\* C6: an exception in is_matching_source or edit_source_metadata for one
\* source does not leave the call: it never raises, and when it has returned
\* every source was matched and every matched source was handed to its owner.
C6_MatchEditIsolation ==
    /\ en_pc # "raised"
    /\ en_pc = "returned" =>
          \A s \in EnrichSources :
              /\ \/ \E p \in Plugins : IsOwner(p, s)
                 \/ \A k \in DOMAIN en_valued : en_asked[s][en_valued[k]] = "false"
              /\ \A p \in Plugins : IsOwner(p, s) => p \in en_marks[s]

\* a format that format_order does not list
AbsentFormat(file_format) == index_from(config.format_order, file_format, 1) = -1

\* C11: in the format step the pair whose format is listed earlier in
\* format_order is placed first, and two different formats that are both
\* absent from format_order tie: the comparison goes on with the flag-score
\* step and the steps after it.
C11_FormatStep ==
    (/\ cmp_pc = "done"
     /\ cmp_a.quality.file_format # cmp_b.quality.file_format
     /\ TiedUpTo(4, cmp_a, cmp_b))
    =>  LET a_format == cmp_a.quality.file_format
            b_format == cmp_b.quality.file_format
        IN  /\ calculate_quality_rank(a_format) < calculate_quality_rank(b_format)
                  => (cmp_ab < 0 /\ cmp_ba > 0)
            /\ (AbsentFormat(a_format) /\ AbsentFormat(b_format))
                  => /\ cmp_ab = FirstDecidingResult(6, cmp_a, cmp_b)
                     /\ cmp_ba = FirstDecidingResult(6, cmp_b, cmp_a)

\* C12: the list rank_sources returns has exactly one entry per extracted
\* (source, quality) pair: a source with k qualities stands in it k times, as
\* the same source object, a source with none never, an empty input gives an
\* empty list, and invalid pairs stay in.
C12_OneEntryPerPair ==
    pc_rank = "done" =>
        /\ Len(ranked) = Len(rank_list)
        /\ \A i \in DOMAIN sources :
              /\ Cardinality({j \in DOMAIN ranked : ranked[j].guid = i})
                    = Len(qualities[i].qualities)
              /\ \A k \in DOMAIN qualities[i].qualities :
                    \E j \in DOMAIN rank_list :
                        rank_list[j] = [source |-> sources[i],
                                        quality |-> qualities[i].qualities[k]]
        /\ \A j \in DOMAIN ranked :
              /\ ranked[j].guid \in DOMAIN sources
              /\ ranked[j] = sources[ranked[j].guid]
              /\ ranked[j] = rank_list[j].source
        /\ sources = <<>> => ranked = <<>>

\* C12 witness: a call returned in which one inspected torrent gave two
\* qualities, one of them invalid, and stands twice in the list, and another
\* source gave none and is missing.
C12_Witness ==
    /\ pc_rank = "done"
    /\ \E i, k \in DOMAIN sources :
          /\ Len(qualities[i].qualities) = 2
          /\ Len(qualities[k].qualities) = 0
          /\ Cardinality({j \in DOMAIN ranked : ranked[j] = sources[i]}) = 2
          /\ \A j \in DOMAIN ranked : ranked[j] # sources[k]
    /\ \E j \in DOMAIN rank_list : ~ValidPair(rank_list[j])
    /\ \E j \in DOMAIN rank_list : ValidPair(rank_list[j])

\* the call fetched the torrent: inspection is on and a response was received
Fetched == ex_pc = "done" /\ Len(ex_seen) > 0

\* the last answer the fetches of the call received
LastSeen == ex_seen[Len(ex_seen)]

\* a response with a server error status
ServerError(r) == r.kind = "response" /\ r.status \in 500 .. 599

\* C13: for a book with runtime_length_min = 0 extract_qualities returns the
\* empty list for every source, without a fetch and without raising.
C13_ZeroRuntime ==
    (ex_pc = "done" /\ book.runtime_length_min = 0) =>
        /\ ex_result = [raised |-> FALSE, qualities |-> <<>>]
        /\ ex_seen = <<>>

\* C13 witness: the call returned for a book without runtime and a source
\* with a download URL while torrent inspection is on.
C13_Witness ==
    /\ ex_pc = "done"
    /\ book.runtime_length_min = 0
    /\ inspection
    /\ ex_source.download_url # None
    /\ ex_result.qualities = <<>>

\* C14: in heuristic mode (no inspection, or a source without download URL),
\* for a source of S bytes and a book of R > 0 minutes, extract_qualities
\* returns exactly one Quality, with kbits = 8*S / (R*60) / 1000.
C14_BitrateFormula ==
    (/\ ex_pc = "done"
     /\ book.runtime_length_min > 0
     /\ ~inspection \/ (ex_source.download_url = None /\ ex_source.magnet_url = None))
    =>  /\ ~ex_result.raised
        /\ Len(ex_result.qualities) = 1
        /\ ex_result.qualities[1].kbits.num = 8 * ex_source.size
        /\ ex_result.qualities[1].kbits.den = (book.runtime_length_min * 60) * 1000

\* C14 witness: a heuristic extraction returned for the two minute book and
\* the source of 3000000 bytes: 200 kbit/s.
C14_Witness ==
    /\ ex_pc = "done"
    /\ ~inspection
    /\ book.runtime_length_min = 2
    /\ ex_source.size = 3000000
    /\ Len(ex_result.qualities) = 1
    /\ ex_result.qualities[1].kbits.num = 200 * ex_result.qualities[1].kbits.den

\* C15: with inspection the torrent of one source is fetched at most 3 times,
\* every response with a 5xx status is followed by another attempt while
\* attempts remain, and when all 3 attempts got such a response the call
\* returns the empty list and does not raise.
C15_RetryOnServerError ==
    Fetched =>
        /\ Len(ex_seen) <= FetchAttempts
        /\ \A k \in DOMAIN ex_seen :
              (ServerError(ex_seen[k]) /\ k < FetchAttempts) => Len(ex_seen) > k
        /\ (Len(ex_seen) = FetchAttempts
            /\ \A k \in DOMAIN ex_seen : ServerError(ex_seen[k]))
              => ex_result = [raised |-> FALSE, qualities |-> <<>>]

\* C16: with inspection, when the fetch is redirected to a magnet link the
\* call stores the magnet URI in source.magnet_url, clears
\* source.download_url and returns exactly the one Quality of the heuristic
\* (format from the title, bitrate from the size), without raising.
C16_MagnetFallback ==
    (Fetched /\ LastSeen.kind = "NonHttpUrlRedirectClientError") =>
        /\ ex_source.magnet_url = MagnetUri
        /\ ex_source.download_url = None
        /\ ~ex_result.raised
        /\ Len(ex_result.qualities) = 1
        /\ ex_result.qualities
              = heuristic_qualities(ex_source, book.runtime_length_min * 60)
        /\ ex_result.qualities[1].file_format
              = (IF "mp3" \in ex_source.title THEN "mp3" ELSE "unknown")

\* C16 witness: the second fetch, after a response with status 500, was
\* redirected to a magnet link and the call returned one mp3 Quality.
C16_Witness ==
    /\ Fetched
    /\ Len(ex_seen) = 2
    /\ ex_seen[1].status = 500
    /\ LastSeen.kind = "NonHttpUrlRedirectClientError"
    /\ ex_source.magnet_url = MagnetUri
    /\ Len(ex_result.qualities) = 1
    /\ ex_result.qualities[1].file_format = "mp3"

\* a torrent descriptor that is malformed: bytes that do not decode, no
\* "info", no "files", or a file entry without "length" or "path"
Malformed(data) ==
    \/ data.kind = "undecodable"
    \/ /\ data.kind = "bencoded"
       /\ \/ "info" \notin data.keys
          \/ "files" \notin data.info_keys
          \/ \E i \in DOMAIN data.files :
                "length" \notin data.files[i].keys \/ "path" \notin data.files[i].keys

\* C17: for every malformed torrent descriptor get_torrent_info returns the
\* empty list and no exception leaves extract_qualities.
C17_MalformedDescriptor ==
    (/\ Fetched
     /\ LastSeen.kind = "response"
     /\ LastSeen.status # 500
     /\ Malformed(LastSeen.body))
    =>  /\ get_torrent_info(LastSeen.body, book.runtime_length_min * 60)
              = [raised |-> FALSE, qualities |-> <<>>]
        /\ ex_result = [raised |-> FALSE, qualities |-> <<>>]

\* a stored configuration that is invalid: a required field without value and
\* without default, or a number field whose value is not a number
InvalidConfiguration(stored) ==
    \E i \in DOMAIN IndexerConfigurations :
        LET field == IndexerConfigurations[i]
            value == IF stored[field.key] = None THEN field.default
                     ELSE stored[field.key]
        IN  \/ field.required /\ value = None
            \/ /\ field.type \in {"int", "float"}
               /\ value \notin {None, "7", "10"}

\* a stored configuration that is valid and switches the plugin off
InactiveConfiguration(stored) ==
    /\ ~InvalidConfiguration(stored)
    /\ ~is_active(create_valued_configuration(IndexerConfigurations, stored).valued)

\* plugin p took no part in the call: no setup, no matching, no editing
TookNoPart(p) ==
    /\ en_setup[p] = "none"
    /\ \A s \in EnrichSources : en_asked[s][p] = "notasked" /\ p \notin en_marks[s]
    /\ \A c \in DOMAIN en_coros : en_coros[c].plugin # p

\* C18: a plugin whose configuration is invalid (a required field missing or
\* a value of the wrong type) takes no part in the enrichment call, the call
\* does not raise, and every other plugin is set up and asked about the
\* sources no earlier plugin owns.
C18_InvalidConfigurationSkipped ==
    \A p \in DOMAIN en_stored :
        InvalidConfiguration(en_stored[p]) =>
            /\ TookNoPart(p)
            /\ en_pc # "raised"
            /\ \A q \in DOMAIN en_stored :
                  ~InvalidConfiguration(en_stored[q]) =>
                      /\ \E k \in DOMAIN en_valued : en_valued[k] = q
                      /\ en_pc \in {"match", "edit", "returned"}
                            => en_setup[q] \in {"returned", "raised"}
                      /\ en_pc = "returned" =>
                            \A s \in EnrichSources :
                                \/ en_asked[s][q] # "notasked"
                                \/ \E r \in Plugins : r < q /\ IsOwner(r, s)

\* C19: a plugin that is inactive by configuration takes no part in the
\* enrichment call: its setup(), is_matching_source() and
\* edit_source_metadata() are never invoked, and it modifies no source.
C19_InactiveSkipped ==
    \A p \in DOMAIN en_stored :
        InactiveConfiguration(en_stored[p]) => TookNoPart(p)

\* C20: a plugin whose setup() raised in this enrichment call is never asked
\* is_matching_source and edits no source in that call.
C20_OnlySetUpPluginsMatch ==
    \A p \in Plugins :
        en_setup[p] = "raised" =>
            /\ \A s \in EnrichSources :
                  en_asked[s][p] = "notasked" /\ p \notin en_marks[s]
            /\ \A c \in DOMAIN en_coros : en_coros[c].plugin # p

\* C24: of two returned torrent pairs that tie on validity, title, authors,
\* narrators, format (the same format), flag score, indexer rank and subtitle,
\* the one with more seeders is placed first, whatever their publish dates.
C24_MoreSeedersFirst ==
    pc_rank = "done" =>
        \A i, j \in DOMAIN rank_list :
            LET a == rank_list[i]
                b == rank_list[j]
            IN  (/\ a.source.protocol = "torrent"
                 /\ b.source.protocol = "torrent"
                 /\ a.quality.file_format = b.quality.file_format
                 /\ TiedUpTo(8, a, b)
                 /\ a.source.seeders > b.source.seeders)
                => i < j

\* the owner of source s has been decided: a plugin owns it, or every plugin
\* of valued declined it
OwnerDecided(s) ==
    \/ \E p \in Plugins : IsOwner(p, s)
    \/ \A k \in DOMAIN en_valued : en_asked[s][en_valued[k]] = "false"

\* C29: no is_matching_source call starts before every plugin's setup() has
\* finished (returned or raised), and no edit_source_metadata call starts
\* running before the owner of every source has been decided.
C29_PhasesSeparated ==
    /\ (\E s \in DOMAIN en_asked, p \in Plugins : en_asked[s][p] # "notasked")
          => \A p \in Plugins : en_setup[p] \in {"none", "returned", "raised"}
    /\ (en_task # <<>> \/ \E s \in DOMAIN en_marks : en_marks[s] # {})
          => \A s \in EnrichSources : OwnerDecided(s)

\* C29 witness: two plugins were set up, one setup() raised; both sources
\* were matched, by different plugins, and one of the two edits has run.
C29_Witness ==
    /\ en_pc = "edit"
    /\ en_setup = <<"returned", "raised">>
    /\ Len(en_coros) = 2
    /\ en_coros[1].plugin # en_coros[2].plugin
    /\ en_task = <<"pending", "returned">>

\* C22: rank_sources and extract_qualities write neither the book nor the
\* ranking configuration (the database rows behind them), and with torrent
\* inspection switched off they leave every field of every input source as
\* it was.
C22_ReadOnly ==
    [][/\ book' = book
       /\ config' = config
       /\ ~inspection => sources' = sources]_vars

\* C22 witness: a call without inspection returned two sources that have a
\* download URL, while the network would have redirected to a magnet link.
C22_Witness ==
    /\ pc_rank = "done"
    /\ ~inspection
    /\ Len(ranked) = 2
    /\ \A i \in DOMAIN sources :
          sources[i].download_url # None /\ sources[i].magnet_url = None

\* the keywords of the heuristic in priority order, and the format of each
KeywordPriority == <<"mp3", "flac", "m4b", "audiobook">>

KeywordFormat == <<"mp3", "flac", "m4b", "unknown-audio">>

\* the positions in KeywordPriority of the keywords found in the lower-cased
\* title of the source of the call
KeywordsFound ==
    {k \in DOMAIN KeywordPriority :
        \E w \in ex_source.title : lower(w) = KeywordPriority[k]}

\* the call returned from the heuristic: the runtime is known and no fetch
\* was made
HeuristicReturned ==
    /\ ex_pc = "done"
    /\ book.runtime_length_min # 0
    /\ ex_seen = <<>>

\* C23: the heuristic returns exactly one Quality, whose format is that of
\* the first keyword in the order mp3, flac, m4b, audiobook that the
\* lower-cased title contains (unknown-audio for audiobook), and unknown when
\* the title contains none of them.
C23_KeywordPriority ==
    HeuristicReturned =>
        /\ ~ex_result.raised
        /\ Len(ex_result.qualities) = 1
        /\ ex_result.qualities[1].file_format
              = (IF KeywordsFound = {} THEN "unknown"
                 ELSE KeywordFormat[CHOOSE k \in KeywordsFound :
                                       \A l \in KeywordsFound : k <= l])

\* C23 witness: a title with FLAC and MP3 in upper case was classified mp3.
C23_Witness ==
    /\ HeuristicReturned
    /\ {"FLAC", "MP3"} \subseteq ex_source.title
    /\ ex_result.qualities = <<[kbits |-> kbits_of(ex_source.size, 60),
                                file_format |-> "mp3"]>>
    /\ book = PlainBook

\* the plugin is active and configured, so enrichResults edits
MamEdits == mam_is_active(mam_config) /\ mam_is_valid(mam_config)

\* C21: when enrichResults returns, every source whose guid is a key of the
\* cached MyAnonamouse result has the authors and narrators of that result,
\* and its indexer_flags are the flags it had before together with the
\* flags of the result.
C21_EditMergesFlags ==
    [][(mam_pc = "call" /\ mam_pc' = "done" /\ MamEdits
        /\ mam_query # "")
       => \A i \in DOMAIN mam_results :
             mam_results[i].guid \in DOMAIN mam_cached'
             => LET e == mam_cached'[mam_results[i].guid]
                IN  /\ mam_results'[i].authors = e.authors
                    /\ mam_results'[i].narrators = e.narrators
                    /\ mam_results'[i].indexer_flags
                          = mam_results[i].indexer_flags \cup e.indexer_flags]_vars

\* the call is inside the with block of manage_queried, at one of its awaits
Inside(c) == calls[c].pc \in {"query_prowlarr", "rank_sources", "start_download"}

\* the start_download requests the call made
DownloadsOf(c) == {i \in DOMAIN downloads : downloads[i].call = c}

\* C25: a call made a start_download request iff it got a ranked list, it
\* was asked to start a download, the book it read is not downloaded and
\* the ranked list is not empty; it then made exactly one, for the guid and
\* the indexer_id of the first element of the ranked list. Calls that never
\* got a ranked list (404, 'querying', 'uncached', an exception) made none.
C25_DownloadTrigger ==
    \A c \in DOMAIN calls :
        IF /\ calls[c].ranked # Nothing
           /\ calls[c].start_auto_download
           /\ ~calls[c].book.downloaded
           /\ TheList(calls[c].ranked) # <<>>
        THEN /\ Cardinality(DownloadsOf(c)) = 1
             /\ \A i \in DownloadsOf(c) :
                   /\ downloads[i].guid = TheList(calls[c].ranked)[1].guid
                   /\ downloads[i].indexer_id
                         = TheList(calls[c].ranked)[1].indexer_id
        ELSE DownloadsOf(c) = {}

\* C25 witness: a call returned 'ok' after one request for the first of two
\* ranked sources, which query_prowlarr had returned second; the other call
\* was asked to start a download too and made no request, its book being
\* downloaded by then.
C25_Witness ==
    /\ calls[1].pc = "returned"
    /\ calls[1].result.state = "ok"
    /\ calls[1].sources = Some(<<QuerySourceA, QuerySourceB>>)
    /\ calls[1].ranked = Some(<<QuerySourceB, QuerySourceA>>)
    /\ downloads = <<[call |-> 1, guid |-> "guid-b", indexer_id |-> 2,
                      book_asin |-> calls[1].asin]>>
    /\ calls[2].asin = calls[1].asin
    /\ calls[2].start_auto_download
    /\ calls[2].result.state = "ok"
    /\ calls[2].ranked = Some(<<QuerySourceA>>)

\* no two calls for one ASIN are inside manage_queried
OneQueryPerAsin ==
    \A c, d \in DOMAIN calls :
        (c # d /\ Inside(c) /\ Inside(d)) => calls[c].asin # calls[d].asin

\* call c takes its first step while another call for its ASIN is inside
StartsDuringQuery(c) ==
    /\ calls[c].pc = "start"
    /\ calls'[c].pc # "start"
    /\ \E d \in DOMAIN calls :
          d # c /\ Inside(d) /\ calls[d].asin = calls[c].asin

QueryingInProgress ==
    querying = {calls[c].asin : c \in {d \in DOMAIN calls : Inside(d)}}

\* C27: at every step the set querying holds exactly the ASINs of the
\* calls that are inside manage_queried, however the calls before ended
\* ('ok', 'uncached', or an exception), and a call is answered 'querying'
\* only when another call for its ASIN is inside.
C27_QueryingReleased ==
    [][/\ QueryingInProgress'
       /\ \A c \in DOMAIN calls :
             (calls[c].pc = "start" /\ calls'[c].result.state = "querying")
                => \E d \in DOMAIN calls :
                      d # c /\ Inside(d) /\ calls[d].asin = calls[c].asin]_vars

\* C27 witness: call 1 ended with HTTP 500 after a failed download, and
\* call 2 for the same ASIN is querying Prowlarr.
C27_Witness ==
    /\ calls[1].pc = "raised"
    /\ calls[1].error = "HTTP 500"
    /\ calls[2].asin = calls[1].asin
    /\ calls[2].pc = "query_prowlarr"
    /\ querying = {calls[2].asin}

\* call c gets the response of start_download in this step
Responded(c, resp) ==
    calls[c].pc = "start_download" /\ calls'[c].resp = resp

\* C28: the rows change only in the step in which a call gets an ok
\* response of start_download, and then every row with the ASIN of the call
\* is downloaded and the other rows are as before; a call that gets a
\* response that is not ok raises HTTP 500 and leaves the rows as they were.
C28_DownloadedAfterOk ==
    [][/\ rows' # rows => \E c \in DOMAIN calls : Responded(c, "ok")
       /\ \A c \in DOMAIN calls :
             Responded(c, "ok") =>
                /\ DOMAIN rows' = DOMAIN rows
                /\ \A i \in DOMAIN rows :
                      /\ rows'[i].asin = rows[i].asin
                      /\ rows'[i].downloaded
                            = (rows[i].downloaded \/ rows[i].asin = calls[c].asin)
       /\ \A c \in DOMAIN calls :
             Responded(c, "not ok") =>
                /\ calls'[c].pc = "raised"
                /\ calls'[c].error = "HTTP 500"
                /\ rows' = rows]_vars

\* C28 witness: the two rows of one ASIN are both downloaded after call 1 got
\* an ok response; call 2, for the same ASIN, had got one that was not ok.
C28_Witness ==
    /\ calls[1].resp = "ok"
    /\ calls[2].resp = "not ok"
    /\ calls[2].error = "HTTP 500"
    /\ calls[2].asin = calls[1].asin
    /\ Len(rows) = 2
    /\ rows[1].asin = calls[1].asin
    /\ rows[2].asin = calls[1].asin
    /\ rows[1].downloaded
    /\ rows[2].downloaded

\* C30: what get or get_all of an instance returned was stored through that
\* instance.
C30_InstancesIndependent ==
    \A v \in ca_last.returned : v = CacheValue(ca_last.instance)

====
